---- MODULE Spec2Model ----
(***************************************************************************)
(* The windowed-view annotation model of the EEG annotation tool.          *)
(*                                                                         *)
(* The repository holds two front ends over the same behaviour:            *)
(*   "qt": EEGDashboard (main_dashboard.py) with AnnotationManager         *)
(*         (annotation_system.py) and the data classes of models.py;       *)
(*   "tk": eegDashboard (dashboard.py), which keeps the same state as      *)
(*         attributes of one object.                                       *)
(* The front end is fixed in the initial state; each event handler of a    *)
(* front end is one action.                                                *)
(*                                                                         *)
(* Times are exact integers counted in ticks of 0.1 ms (10 ticks = 1 ms,   *)
(* 10000 ticks = 1 s), so that rounding to three decimals (whole           *)
(* milliseconds) is a real conversion.  Text is a sequence of tokens; the  *)
(* token " " is whitespace.                                                *)
(***************************************************************************)
EXTENDS Integers, Sequences, FiniteSets, TLC

VARIABLES
    frontend,       \* which front end runs: "qt" or "tk"
    eeg_data,       \* the loaded recording, NoRecording before the first load
    anno_mode,      \* the annotation-mode toggle
    sel,            \* the SelectionState (qt) / annotation selection fields (tk)
    annotations,    \* the store: an insertion-ordered dict, key -> list of annotations
    nextId,         \* number of annotation objects created (object identity)
    pressX,         \* history: x of the press that started the drag in progress
    keyLog,         \* history: keys returned by insert for the current store
    last,           \* observation: what the last handler did
    current_window_start,   \* start of the displayed window (ticks)
    time_scale,             \* length of the displayed window (ticks)
    selected_channels,      \* indices of the displayed channels
    lowpass_filter,         \* low-pass cutoff, None when unset
    highpass_filter,        \* high-pass cutoff, None when unset
    edf_file,               \* the recording the annotation store is bound to
    selected_annotation_channels,
                            \* channel names picked for the next annotation
    table,                  \* rows of the annotation table (qt), as last populated
    search_text,            \* text of the table's filter field (qt)
    document,               \* the annotation file last written, NoDocument before
    collection_window_size, \* window_size of the collection (qt) / windowSizeSeconds (tk)
    amplitude_scale,        \* amplitude scale of the display, in tenths
    sample_matrix,          \* content of the recording's sample matrix
    playback                \* auto-play (qt): the timer, the play button, is_playing

\* the display state: window position and display settings
view == <<current_window_start, time_scale, selected_channels, lowpass_filter, highpass_filter>>

\* the annotation panel (qt)
panel == <<table, search_text>>

vars == <<frontend, eeg_data, anno_mode, sel, annotations, nextId, pressX, keyLog, last,
          view, edf_file, selected_annotation_channels, panel, document, playback, collection_window_size,
          amplitude_scale, sample_matrix>>

---------------------------------------------------------------------------
(* Bounds and input alphabets *)

\* annotation objects created in one run
MaxInserts == 2

\* pointer x coordinates (ticks), none a whole millisecond: 4 to 504 is a
\* 0.05 s drag, 4 to 1004 one of exactly 0.1 s
XS == {4, 504, 1004, 2006}

\* edges of the windows a range query is asked for
WindowEdges == {0, 1000, 2010}

\* what a user may type into a label field
DialogTexts == {<<>>, <<" ">>, <<" ", "Seizure", " ">>}

\* what a user may set a time spin box of the edit dialog to
EditTimes == {500}

Buttons == {1, 3}
FrontEnds == {"qt", "tk"}
\* files that decode to a recording; every other path fails to load
Recordings == {"a.edf", "b.edf"}
NoRecording == "none"

\* the process after an exception left a Qt slot: PyQt6 aborts
Aborted == "aborted"

\* the sample matrix the loader returned for a recording
Raw(rec) == [rec |-> rec, filters |-> <<>>, patches |-> {}]

\* EEGData.total_duration (ticks): 30 s and 25 s
total_duration(rec) == IF rec = "a.edf" THEN 300000 ELSE 250000

\* EEGData.channel_names
channel_names(rec) == IF rec = "a.edf" THEN <<"C3", "O1">> ELSE <<"C3">>

\* list(range(len(eeg_data.channel_names)))
all_channels(rec) == [i \in 1..Len(channel_names(rec)) |-> i - 1]

\* the recording opened in the annotation workflow
WorkPicks == {"a.edf"}

\* what the file picker may return: "" is a cancelled dialog, "corrupt" a
\* file the decoder refuses
Picks == {"", "corrupt"} \cup Recordings

\* amplitude scales 1.0 and 2.0, in tenths
AmplitudeScales == {10, 20}

\* the choices of the window-length box used here: 10 s and 20 s
TimeScales == {100000, 200000}

\* DisplaySettings.time_scale = 20.0 / eegDashboard.timeScale = 20
DefaultTimeScale == 200000

\* filter settings a user may choose: both cutoffs unset, or 30 Hz / 1 Hz
FilterChoices == {<<<<>>, <<>>>>, <<<<30>>, <<1>>>>}

\* channel lists a user may apply
ChannelPicks == {<<>>, <<0>>}

NavActions == {"next", "previous", "first", "last"}

\* no annotation file has been written yet
NoDocument == <<>>

\* what the file picker for annotation files may return: "" is a cancelled
\* dialog, out.json the file this program writes, the others files found on
\* disk
AnnotationPaths == {"", "out.json", "legacy.json", "sparse.json", "partial.json", "broken.json"}
SavePaths == {"", "out.json"}

\* DisplaySettings.amplitude_scale = 1.0 / eegDashboard.amplitudeScale = 1.0,
\* counted in tenths
DefaultAmplitude == 10

---------------------------------------------------------------------------
(* Optional values: None is <<>>, a present value x is <<x>> *)

None == <<>>
Some(x) == <<x>>
Abs(x) == IF x < 0 THEN -x ELSE x
Min(a, b) == IF a <= b THEN a ELSE b
Max(a, b) == IF a >= b THEN a ELSE b

\* round(x, 3): to whole milliseconds, ties to even
Round3(x) ==
    LET q == x \div 10
        r == x % 10
    IN  IF r < 5 THEN 10 * q
        ELSE IF r > 5 THEN 10 * (q + 1)
        ELSE IF q % 2 = 0 THEN 10 * q ELSE 10 * (q + 1)

\* str.strip(): drop leading and trailing whitespace
RECURSIVE LStrip(_)
LStrip(t) == IF t # <<>> /\ Head(t) = " " THEN LStrip(Tail(t)) ELSE t
RECURSIVE RStrip(_)
RStrip(t) == IF t # <<>> /\ t[Len(t)] = " " THEN RStrip(SubSeq(t, 1, Len(t) - 1)) ELSE t
Strip(t) == RStrip(LStrip(t))

---------------------------------------------------------------------------
(* models.py: SelectionState *)

\* minimum annotatable duration, 0.1 s
MinSelection == 1000

SelectionState == [start_time |-> None, end_time |-> None,
                   is_selecting |-> FALSE, mouse_pressed |-> FALSE]

\* a clear that leaves the end time
clear_start_only(s) == [start_time |-> None, end_time |-> s.end_time,
                        is_selecting |-> FALSE, mouse_pressed |-> FALSE]

\* SelectionState.clear
clear(s) == [start_time |-> None, end_time |-> None,
             is_selecting |-> FALSE, mouse_pressed |-> FALSE]

has_selection_strict(s) ==
    /\ s.start_time # None
    /\ s.end_time # None
    /\ Abs(s.end_time[1] - s.start_time[1]) > MinSelection

has_selection(s) ==
    /\ s.start_time # None
    /\ s.end_time # None
    /\ Abs(s.end_time[1] - s.start_time[1]) >= MinSelection

get_selection_info(s) ==
    IF s.start_time # None /\ s.end_time # None
    THEN <<Some(Min(s.start_time[1], s.end_time[1])), Some(Max(s.start_time[1], s.end_time[1]))>>
    ELSE <<None, None>>

---------------------------------------------------------------------------
(* models.py: Annotation *)

\* annotation_colors.get(text, default): colours are named after the tuple
annotation_colors(text) ==
    IF text = <<"Seizure">> THEN "red"
    ELSE IF text = <<"Artifact">> THEN "green"
    ELSE IF text = <<"Spike">> THEN "blue"
    ELSE IF text = <<"Sleep">> THEN "yellow"
    ELSE "gray"

\* the tk front end stores plain dicts without a colour
NoColor == "absent"

\* a create that keeps the times as given
Annotation_create_unrounded(id, text, start_time, end_time, color) ==
    [id         |-> id,
     text       |-> text,
     start_time |-> start_time,
     end_time   |-> end_time,
     duration   |-> Round3(Abs(end_time - start_time)),
     color      |-> color]

\* Annotation.create; id stands for the identity of the new object
Annotation_create(id, text, start_time, end_time, color) ==
    [id         |-> id,
     text       |-> text,
     start_time |-> Round3(start_time),
     end_time   |-> Round3(end_time),
     duration   |-> Round3(Abs(end_time - start_time)),
     color      |-> color]

\* the channels keyword of Annotation.create: the annotation keeps the
\* channel names it is scoped to, none for a global annotation
with_channels(annotation, channels) == annotation @@ [channels |-> channels]

---------------------------------------------------------------------------
(* models.py: AnnotationCollection.  A dict is a sequence of entries       *)
(* [key, list] in insertion order; assigning to a present key replaces its *)
(* value in place.                                                         *)

\* f"annotation_{n}"
Key(n) == <<"annotation", n>>

DictHas(d, k) == \E i \in DOMAIN d : d[i].key = k

DictSet(d, k, v) ==
    IF DictHas(d, k)
    THEN [i \in DOMAIN d |-> IF d[i].key = k THEN [key |-> k, list |-> v] ELSE d[i]]
    ELSE Append(d, [key |-> k, list |-> v])

\* for annotation_list in d.values(): for annotation in annotation_list
RECURSIVE Values(_)
Values(d) == IF d = <<>> THEN <<>> ELSE Head(d).list \o Values(Tail(d))

Ids(s) == {s[i].id : i \in DOMAIN s}

add_annotation(d, annotation) ==
    [key         |-> Key(Len(d)),
     annotations |-> DictSet(d, Key(Len(d)), <<annotation>>)]

Overlaps_closed(a, start_time, end_time) ==
    a.start_time <= end_time /\ a.end_time >= start_time

Overlaps(a, start_time, end_time) ==
    a.start_time < end_time /\ a.end_time > start_time

get_annotations_in_range(d, start_time, end_time) ==
    SelectSeq(Values(d), LAMBDA a : Overlaps(a, start_time, end_time))

\* AnnotationManager.get_annotations_in_window
get_annotations_in_window(d, window_start, window_end) ==
    get_annotations_in_range(d, window_start, window_end)

\* flatten all stored annotations in dict order
get_all_annotations(d) == Values(d)

\* a removal that matches by the fields of the annotation
remove_annotation_by_fields(d, annotation) ==
    LET same(a) == /\ a.text = annotation.text
                   /\ a.start_time = annotation.start_time
                   /\ a.end_time = annotation.end_time
        stripped == [i \in DOMAIN d |->
                        [key  |-> d[i].key,
                         list |-> SelectSeq(d[i].list, LAMBDA a : ~same(a))]]
    IN  SelectSeq(stripped, LAMBDA e : e.list # <<>>)

\* a removal that drops the newest key when the annotation is not found
remove_annotation_or_newest(d, annotation) ==
    LET stripped == [i \in DOMAIN d |->
                        [key  |-> d[i].key,
                         list |-> SelectSeq(d[i].list, LAMBDA a : a.id # annotation.id)]]
        kept == SelectSeq(stripped, LAMBDA e : e.list # <<>>)
    IN  IF stripped = d /\ d # <<>> THEN SubSeq(d, 1, Len(d) - 1) ELSE kept

\* remove the annotation by identity from whichever key holds it; a key whose
\* list becomes empty is removed
remove_annotation(d, annotation) ==
    LET stripped == [i \in DOMAIN d |->
                        [key  |-> d[i].key,
                         list |-> SelectSeq(d[i].list, LAMBDA a : a.id # annotation.id)]]
    IN  SelectSeq(stripped, LAMBDA e : e.list # <<>>)

RECURSIVE remove_all(_, _)
remove_all(d, to_delete) ==
    IF to_delete = <<>> THEN d
    ELSE remove_all(remove_annotation(d, Head(to_delete)), Tail(to_delete))

---------------------------------------------------------------------------
(* ui_components.py: the label prompt and the edit dialog.  A dialog run   *)
(* is the text typed and the button pressed last; OK on an input the       *)
(* dialog refuses leaves it open, and the user then cancels.               *)

DialogRuns ==
    [button : {"ok"}, text : DialogTexts] \cup {[button |-> "cancel", text |-> <<>>]}

AnnotationDialog_nostrip(dlg) ==
    IF dlg.button = "ok" THEN [isNone |-> FALSE, text |-> dlg.text]
    ELSE [isNone |-> TRUE, text |-> <<>>]

\* AnnotationDialog.accept / .result
AnnotationDialog(dlg) ==
    IF dlg.button = "ok" THEN [isNone |-> FALSE, text |-> Strip(dlg.text)]
    ELSE [isNone |-> TRUE, text |-> <<>>]

\* truth value of an Optional[str]
Truthy(res) == ~res.isNone /\ res.text # <<>>

\* rounding to two decimals (100 ticks); no time of the model lies halfway
Round2(x) ==
    LET q == x \div 100
        r == x % 100
    IN  IF r < 50 THEN q * 100 ELSE (q + 1) * 100

\* QDoubleSpinBox.setValue: called while the box still has its default two
\* decimals (setDecimals(3) comes after it), with range (0, 999999) s; the
\* upper limit lies beyond every time of the model
SpinValue(v) == Max(0, Round2(v))

\* an accept that does not compare the two times
EditAnnotationDialog_norange(dlg) ==
    IF dlg.button # "ok" THEN None
    ELSE IF Strip(dlg.text) = <<>> THEN None
    ELSE Some([text |-> Strip(dlg.text), start_time |-> dlg.start_time, end_time |-> dlg.end_time])

\* EditAnnotationDialog.accept: None, or the validated result
EditAnnotationDialog(dlg) ==
    IF dlg.button # "ok" THEN None
    ELSE IF Strip(dlg.text) = <<>> THEN None
    ELSE IF dlg.start_time > dlg.end_time THEN None
    ELSE Some([text |-> Strip(dlg.text), start_time |-> dlg.start_time, end_time |-> dlg.end_time])

---------------------------------------------------------------------------
(* Initial state: a freshly constructed dashboard of either front end *)

Init ==
    /\ frontend \in FrontEnds
    /\ eeg_data = NoRecording
    /\ anno_mode = FALSE
    /\ sel = SelectionState
    /\ annotations = <<>>
    /\ nextId = 0
    /\ pressX = None
    /\ keyLog = <<>>
    /\ last = [op |-> "init", cleared |-> FALSE]
    /\ current_window_start = 0
    /\ time_scale = DefaultTimeScale
    /\ selected_channels = <<>>
    /\ lowpass_filter = None
    /\ highpass_filter = None
    /\ edf_file = NoRecording
    /\ selected_annotation_channels = {}
    /\ table = <<>>
    /\ search_text = <<>>
    /\ document = NoDocument
    /\ collection_window_size = DefaultTimeScale
    /\ amplitude_scale = DefaultAmplitude
    /\ sample_matrix = Raw(NoRecording)
    /\ playback = [timer_active |-> FALSE, is_playing |-> FALSE, checked |-> FALSE]

\* matplotlib reports a position inside the axes only once a plot exists,
\* and both front ends draw the axes only with a recording loaded
InAxes == IF eeg_data = NoRecording THEN {FALSE} ELSE BOOLEAN

\* str.lower() on a text: the labels used here and their lower-case forms
Lower(t) ==
    [i \in DOMAIN t |->
        CASE t[i] = "Seizure"  -> "seizure"
          [] t[i] = "Spike"    -> "spike"
          [] t[i] = "Artifact" -> "artifact"
          [] t[i] = "Sleep"    -> "sleep"
          [] OTHER             -> t[i]]

\* needle in hay, for texts: needle is a contiguous part of hay
Contains(hay, needle) ==
    \E k \in 0..(Len(hay) - Len(needle)) :
        \A i \in DOMAIN needle : hay[k + i] = needle[i]

\* the indices of all whose annotation passes the filter of the table
Shown(all, filter_text) ==
    {i \in DOMAIN all : filter_text = <<>> \/ Contains(Lower(all[i].text), filter_text)}

\* a population of the table that stores the row number in each row
update_annotations_display_rownum(all, text) ==
    LET filter_text == Lower(text)
        shown == Shown(all, filter_text)
        nth(r) == CHOOSE i \in shown : Cardinality({j \in shown : j < i}) = r - 1
    IN  [r \in 1..Cardinality(shown) |-> [index |-> r, id |-> all[nth(r)].id]]

\* AnnotationPanel.update_annotations_display: one row per annotation that
\* passes the filter, in the order of all; a row stores the annotation's
\* position in all (sequences count from 1) and shows the annotation (id)
update_annotations_display(all, text) ==
    LET filter_text == Lower(text)
        shown == Shown(all, filter_text)
        nth(r) == CHOOSE i \in shown : Cardinality({j \in shown : j < i}) = r - 1
    IN  [r \in 1..Cardinality(shown) |-> [index |-> nth(r), id |-> all[nth(r)].id]]

\* the indices stored in the rows of the table
RowIndices == {table[r].index : r \in DOMAIN table}

\* the annotations shown by the rows that store the given indices
ShownBy(indices) == {table[r].id : r \in {q \in DOMAIN table : table[q].index \in indices}}

\* AnnotationPanel.get_selected_annotation_indices: the indices stored in
\* the checked rows, or in the highlighted row (0: none) when none is checked
get_selected_annotation_indices(checked, current) ==
    IF checked # {} THEN {table[r].index : r \in checked}
    ELSE IF current >= 1 THEN {table[current].index}
    ELSE {}

\* AnnotationPanel.get_selected_annotation_index: the first of the selected
\* indices (rows are read top down), None when no row is selected
get_selected_annotation_index(checked, current) ==
    IF checked # {}
    THEN Some(table[CHOOSE r \in checked : \A q \in checked : r <= q].index)
    ELSE IF current >= 1 THEN Some(table[current].index)
    ELSE None

\* EEGDashboard._update_all, the part that repopulates the table; it
\* returns at once without a recording.  rec and d are the recording and
\* the store the handler leaves
update_all(rec, d) ==
    table' = IF rec = NoRecording THEN table
             ELSE update_annotations_display(get_all_annotations(d), search_text)

\* the annotation-mode check box / tool-bar toggle
ToggleAnnotationMode ==
    /\ frontend \in FrontEnds
    /\ anno_mode' = ~anno_mode
    /\ last' = [op |-> "mode", cleared |-> FALSE]
    /\ UNCHANGED <<frontend, eeg_data, sel, annotations, nextId, pressX, keyLog, view, edf_file,
                   selected_annotation_channels,
                   panel, document, playback, collection_window_size, amplitude_scale, sample_matrix>>

---------------------------------------------------------------------------
(* qt: EEGDashboard and AnnotationManager *)

\* the early returns of a load: the file dialog was cancelled, or the file
\* did not decode
load_failed_reset ==
    /\ last' = [op |-> "load", loaded |-> FALSE, cleared |-> FALSE]
    /\ current_window_start' = 0
    /\ UNCHANGED <<eeg_data, annotations, keyLog, sel, time_scale, selected_channels,
                   lowpass_filter, highpass_filter, edf_file,
                   table, collection_window_size, sample_matrix>>

load_failed ==
    /\ last' = [op |-> "load", loaded |-> FALSE, cleared |-> FALSE]
    /\ UNCHANGED <<eeg_data, annotations, keyLog, sel, view, edf_file,
                   table, collection_window_size, sample_matrix>>

\* EEGDashboard.load_eeg_file; picked is "" (file dialog cancelled),
\* "corrupt" (the loader returns None) or a recording
load_eeg_file(picked) ==
    /\ frontend = "qt"
    /\ IF picked \in Recordings
       THEN /\ eeg_data' = picked
            /\ selected_channels' = all_channels(picked)
            /\ current_window_start' = 0
            /\ lowpass_filter' = None
            /\ highpass_filter' = None
            /\ annotations' = <<>>
            /\ keyLog' = <<>>
            /\ edf_file' = picked
            /\ sel' = clear(sel)
            /\ last' = [op |-> "load", loaded |-> TRUE, cleared |-> TRUE]
            /\ collection_window_size' = time_scale
            /\ sample_matrix' = Raw(picked)
            /\ update_all(picked, <<>>)
            /\ UNCHANGED time_scale
       ELSE load_failed
    /\ UNCHANGED <<frontend, anno_mode, nextId, pressX,
                   selected_annotation_channels,
                   search_text, document, playback, amplitude_scale>>

\* a press handler that does not look at the annotation mode
handle_mouse_press_anymode(x, inaxes, button) ==
    /\ frontend = "qt"
    /\ IF ~inaxes \/ button # 1
       THEN UNCHANGED <<sel, pressX, last, table>>
       ELSE /\ sel' = [start_time |-> Some(x), end_time |-> Some(x),
                       is_selecting |-> TRUE, mouse_pressed |-> TRUE]
            /\ pressX' = Some(x)
            /\ last' = [op |-> "press", cleared |-> FALSE]
            /\ update_all(eeg_data, annotations)
    /\ UNCHANGED <<frontend, eeg_data, anno_mode, annotations, nextId, keyLog, view, edf_file,
                   selected_annotation_channels,
                   search_text, document, playback, collection_window_size, amplitude_scale, sample_matrix>>

\* EEGPlotter._on_mouse_press -> AnnotationManager.handle_mouse_press
handle_mouse_press(x, inaxes, button) ==
    /\ frontend = "qt"
    /\ IF ~anno_mode \/ ~inaxes \/ button # 1
       THEN UNCHANGED <<sel, pressX, last, table>>
       ELSE /\ sel' = [start_time |-> Some(x), end_time |-> Some(x),
                       is_selecting |-> TRUE, mouse_pressed |-> TRUE]
            /\ pressX' = Some(x)
            /\ last' = [op |-> "press", cleared |-> FALSE]
            /\ update_all(eeg_data, annotations)
    /\ UNCHANGED <<frontend, eeg_data, anno_mode, annotations, nextId, keyLog, view, edf_file,
                   selected_annotation_channels,
                   search_text, document, playback, collection_window_size, amplitude_scale, sample_matrix>>

\* EEGPlotter._on_mouse_move -> AnnotationManager.handle_mouse_move
handle_mouse_move(x, inaxes, button) ==
    /\ frontend = "qt"
    /\ IF button # 1 \/ ~anno_mode \/ ~sel.mouse_pressed \/ ~sel.is_selecting \/ ~inaxes
       THEN UNCHANGED <<sel, last, table>>
       ELSE /\ sel' = [sel EXCEPT !.end_time = Some(x)]
            /\ last' = [op |-> "move", cleared |-> FALSE]
            /\ update_all(eeg_data, annotations)
    /\ UNCHANGED <<frontend, eeg_data, anno_mode, annotations, nextId, pressX, keyLog, view, edf_file,
                   selected_annotation_channels,
                   search_text, document, playback, collection_window_size, amplitude_scale, sample_matrix>>

\* the range normalisation of handle_mouse_release
Finalize_noswap(s) == s

Finalize(s) ==
    IF s.start_time[1] > s.end_time[1]
    THEN [s EXCEPT !.start_time = s.end_time, !.end_time = s.start_time]
    ELSE s

\* EEGPlotter._on_mouse_release -> AnnotationManager.handle_mouse_release,
\* with _prompt_for_annotation and add_annotation; dlg is the run of the
\* label prompt, should it open
handle_mouse_release(x, inaxes, button, dlg) ==
    /\ frontend = "qt"
    /\ IF button # 1 \/ ~anno_mode \/ ~sel.mouse_pressed
       THEN UNCHANGED <<sel, annotations, nextId, pressX, keyLog, last>>
       ELSE IF sel.is_selecting /\ inaxes
       THEN LET s == Finalize([sel EXCEPT !.mouse_pressed = FALSE, !.end_time = Some(x)])
                annotation_text == AnnotationDialog(dlg)
                annotation == with_channels(
                                  Annotation_create(nextId, annotation_text.text,
                                                    s.start_time[1], s.end_time[1],
                                                    annotation_colors(annotation_text.text)),
                                  selected_annotation_channels)
                added == add_annotation(annotations, annotation)
                seen == [op |-> "release", x0 |-> pressX, x1 |-> x,
                         start |-> s.start_time[1], end |-> s.end_time[1],
                         cleared |-> TRUE]
            IN  IF has_selection(s)
                THEN IF Truthy(annotation_text)
                     THEN /\ nextId < MaxInserts
                          /\ annotations' = added.annotations
                          /\ nextId' = nextId + 1
                          /\ keyLog' = Append(keyLog, added.key)
                          /\ sel' = clear(s)
                          /\ pressX' = None
                          /\ last' = seen @@ [outcome |-> "committed", commit |-> "inserted",
                                              annotation |-> annotation, key |-> added.key,
                                              label |-> annotation_text.text]
                     ELSE /\ sel' = clear(s)
                          /\ pressX' = None
                          /\ last' = seen @@ [outcome |-> "committed", commit |-> "cancelled"]
                          /\ UNCHANGED <<annotations, nextId, keyLog>>
                ELSE /\ sel' = clear(s)
                     /\ pressX' = None
                     /\ last' = seen @@ [outcome |-> "too_short", commit |-> "none"]
                     /\ UNCHANGED <<annotations, nextId, keyLog>>
       ELSE /\ sel' = clear(sel)
            /\ pressX' = None
            /\ last' = [op |-> "release", outcome |-> "outside", cleared |-> TRUE]
            /\ UNCHANGED <<annotations, nextId, keyLog>>
    /\ UNCHANGED <<frontend, eeg_data, anno_mode, view, edf_file,
                   selected_annotation_channels,
                   search_text, document, playback, collection_window_size, amplitude_scale, sample_matrix>>
    /\ IF button # 1 \/ ~anno_mode \/ ~sel.mouse_pressed
       THEN UNCHANGED table
       ELSE update_all(eeg_data, annotations')

\* how a run of the edit dialog ends
EditVerdict(dlg) ==
    IF dlg.button # "ok" THEN "cancelled"
    ELSE IF Strip(dlg.text) = <<>> THEN "empty_label"
    ELSE IF dlg.start_time > dlg.end_time THEN "bad_range"
    ELSE "accepted"

\* in-place update of the annotation object with the given identity
Mutate(d, id, text, start_time, end_time) ==
    [i \in DOMAIN d |->
        [key  |-> d[i].key,
         list |-> [j \in DOMAIN d[i].list |->
                      IF d[i].list[j].id = id
                      THEN [d[i].list[j] EXCEPT !.text = text,
                                                !.start_time = start_time,
                                                !.end_time = end_time]
                      ELSE d[i].list[j]]]]

\* the runs of the edit dialog opened on annotation ann: the fields start
\* out at the annotation's values
EditRuns(ann) ==
    [button     : {"ok"},
     text       : DialogTexts \cup {ann.text},
     start_time : EditTimes \cup {SpinValue(ann.start_time)},
     end_time   : EditTimes \cup {SpinValue(ann.end_time)}]
    \cup {[button |-> "cancel", text |-> ann.text,
           start_time |-> SpinValue(ann.start_time), end_time |-> SpinValue(ann.end_time)]}

\* EEGDashboard._on_edit_annotation on the table row that holds index idx
on_edit_annotation(idx, dlg) ==
    /\ frontend = "qt"
    /\ idx \in RowIndices
    /\ idx \in DOMAIN get_all_annotations(annotations)
    /\ LET ann == get_all_annotations(annotations)[idx]
           result == EditAnnotationDialog(dlg)
       IN  /\ IF result # None
              THEN /\ annotations' = Mutate(annotations, ann.id, result[1].text,
                                            result[1].start_time, result[1].end_time)
                   /\ update_all(eeg_data, annotations')
              ELSE UNCHANGED <<annotations, table>>
           /\ last' = [op |-> "edit", verdict |-> EditVerdict(dlg), id |-> ann.id,
                       shown |-> ShownBy({idx}), cleared |-> FALSE]
    /\ UNCHANGED <<frontend, eeg_data, anno_mode, sel, nextId, pressX, keyLog, view, edf_file,
                   selected_annotation_channels,
                   search_text, document, playback, collection_window_size, amplitude_scale, sample_matrix>>

\* the annotations at the given indices of all, in row order
RECURSIVE Pick(_, _, _)
Pick(all, indices, i) ==
    IF i > Len(all) THEN <<>>
    ELSE (IF i \in indices THEN <<all[i]>> ELSE <<>>) \o Pick(all, indices, i + 1)

\* EEGDashboard._on_delete_selected_annotation with the rows of indices selected
on_delete_selected_annotation(indices) ==
    /\ frontend = "qt"
    /\ eeg_data # NoRecording
    /\ indices \subseteq RowIndices
    /\ indices \subseteq DOMAIN get_all_annotations(annotations)
    /\ LET all_annotations == get_all_annotations(annotations)
           to_delete == Pick(all_annotations, indices, 1)
       IN  IF indices = {}
           THEN UNCHANGED <<annotations, last, table>>
           ELSE /\ annotations' = remove_all(annotations, to_delete)
                /\ update_all(eeg_data, annotations')
                /\ last' = [op |-> "delete", deleted |-> Ids(to_delete),
                            removed |-> to_delete, shown |-> ShownBy(indices),
                            cleared |-> FALSE]
    /\ UNCHANGED <<frontend, eeg_data, anno_mode, sel, nextId, pressX, keyLog, view, edf_file,
                   selected_annotation_channels,
                   search_text, document, playback, collection_window_size, amplitude_scale, sample_matrix>>

---------------------------------------------------------------------------
(* tk: eegDashboard *)

\* eegDashboard.loadEdfFile
loadEdfFile(picked) ==
    /\ frontend = "tk"
    /\ IF picked \in Recordings
       THEN /\ eeg_data' = picked
            /\ selected_channels' = all_channels(picked)
            /\ current_window_start' = 0
            /\ edf_file' = picked
            /\ last' = [op |-> "load", loaded |-> TRUE, cleared |-> FALSE]
            /\ collection_window_size' = time_scale
            /\ sample_matrix' = Raw(picked)
            /\ UNCHANGED <<time_scale, lowpass_filter, highpass_filter,
                           sel, annotations, keyLog, table>>
       ELSE load_failed
    /\ UNCHANGED <<frontend, anno_mode, nextId, pressX,
                   selected_annotation_channels,
                   search_text, document, playback, amplitude_scale>>

\* eegDashboard.onMousePress
onMousePress(x, inaxes, button) ==
    /\ frontend = "tk"
    /\ IF ~anno_mode \/ eeg_data = NoRecording \/ ~(inaxes /\ button = 1)
       THEN UNCHANGED <<sel, pressX, last>>
       ELSE /\ sel' = [start_time |-> Some(x), end_time |-> Some(x),
                       is_selecting |-> TRUE, mouse_pressed |-> TRUE]
            /\ pressX' = Some(x)
            /\ last' = [op |-> "press", cleared |-> FALSE]
    /\ UNCHANGED <<frontend, eeg_data, anno_mode, annotations, nextId, keyLog, view, edf_file,
                   selected_annotation_channels,
                   panel, document, playback, collection_window_size, amplitude_scale, sample_matrix>>

\* "if self.annotationEndTime < self.annotationStartTime: swap"
SwapIfReversed(s) ==
    IF s.end_time[1] < s.start_time[1]
    THEN [s EXCEPT !.start_time = s.end_time, !.end_time = s.start_time]
    ELSE s

\* eegDashboard.onMouseMove
onMouseMove(x, inaxes) ==
    /\ frontend = "tk"
    /\ IF ~anno_mode \/ ~sel.mouse_pressed \/ ~sel.is_selecting \/ ~inaxes
       THEN UNCHANGED <<sel, last>>
       ELSE /\ sel' = SwapIfReversed([sel EXCEPT !.end_time = Some(x)])
            /\ last' = [op |-> "move", cleared |-> FALSE]
    /\ UNCHANGED <<frontend, eeg_data, anno_mode, annotations, nextId, pressX, keyLog, view, edf_file,
                   selected_annotation_channels,
                   panel, document, playback, collection_window_size, amplitude_scale, sample_matrix>>

\* eegDashboard.clearSelection as a function of the selection fields
clearSelection_of(s) ==
    [s EXCEPT !.start_time = None, !.end_time = None, !.is_selecting = FALSE]

\* eegDashboard.onMouseRelease
onMouseRelease(x, inaxes) ==
    /\ frontend = "tk"
    /\ IF ~anno_mode \/ ~sel.mouse_pressed
       THEN UNCHANGED <<sel, pressX, last>>
       ELSE IF sel.is_selecting /\ inaxes
       THEN LET s == SwapIfReversed([sel EXCEPT !.mouse_pressed = FALSE, !.end_time = Some(x)])
                seen == [op |-> "release", x0 |-> pressX, x1 |-> x,
                         start |-> s.start_time[1], end |-> s.end_time[1]]
            IN  /\ pressX' = None
                /\ IF Abs(s.end_time[1] - s.start_time[1]) < MinSelection
                   THEN /\ sel' = clearSelection_of(s)
                        /\ last' = seen @@ [outcome |-> "too_short", commit |-> "none",
                                            cleared |-> TRUE]
                   ELSE /\ sel' = s
                        /\ last' = seen @@ [outcome |-> "committed", commit |-> "pending",
                                            cleared |-> FALSE]
       ELSE /\ sel' = [sel EXCEPT !.mouse_pressed = FALSE]
            /\ pressX' = None
            /\ last' = [op |-> "release", outcome |-> "outside", cleared |-> FALSE]
    /\ UNCHANGED <<frontend, eeg_data, anno_mode, annotations, nextId, keyLog, view, edf_file,
                   selected_annotation_channels,
                   panel, document, playback, collection_window_size, amplitude_scale, sample_matrix>>

\* the "Clear Selection" button: eegDashboard.clearSelection
clearSelection ==
    /\ frontend = "tk"
    /\ sel' = clearSelection_of(sel)
    /\ last' = [op |-> "clear", cleared |-> TRUE]
    /\ UNCHANGED <<frontend, eeg_data, anno_mode, annotations, nextId, pressX, keyLog, view, edf_file,
                   selected_annotation_channels,
                   panel, document, playback, collection_window_size, amplitude_scale, sample_matrix>>

\* the "Add Selected Annotation" button: eegDashboard.addSelectedAnnotation,
\* entry is the content of the annotation entry field
addSelectedAnnotation(entry) ==
    /\ frontend = "tk"
    /\ LET annotationText == Strip(entry)
           annotationKey == Key(Len(annotations))
           annotationData ==
               [id         |-> nextId,
                text       |-> annotationText,
                start_time |-> Round3(sel.start_time[1]),
                end_time   |-> Round3(sel.end_time[1]),
                duration   |-> Round3(Abs(sel.end_time[1] - sel.start_time[1])),
                color      |-> NoColor]
       IN  IF \/ eeg_data = NoRecording
              \/ sel.start_time = None \/ sel.end_time = None
              \/ annotationText = <<>>
           THEN UNCHANGED <<sel, annotations, nextId, keyLog, last>>
           ELSE /\ nextId < MaxInserts
                /\ annotations' = DictSet(annotations, annotationKey, <<annotationData>>)
                /\ nextId' = nextId + 1
                /\ keyLog' = Append(keyLog, annotationKey)
                /\ sel' = clearSelection_of(sel)
                /\ last' = [op |-> "add", cleared |-> TRUE,
                            start |-> sel.start_time[1], end |-> sel.end_time[1],
                            annotation |-> annotationData, key |-> annotationKey,
                            label |-> annotationText]
    /\ UNCHANGED <<frontend, eeg_data, anno_mode, pressX, view, edf_file,
                   selected_annotation_channels,
                   panel, document, playback, collection_window_size, amplitude_scale, sample_matrix>>

\* eegDashboard.drawExistingAnnotations: the annotations highlighted in the
\* window [windowStart, windowEnd)
drawExistingAnnotations(d, windowStart, windowEnd) ==
    SelectSeq(Values(d), LAMBDA annotation :
        annotation.start_time < windowEnd /\ annotation.end_time > windowStart)

---------------------------------------------------------------------------
(* The range-overlap query, asked by either front end for a window *)

QueryOverlapping(ws, we) ==
    /\ frontend \in FrontEnds
    /\ ws < we
    /\ last' = [op |-> "query", ws |-> ws, we |-> we, cleared |-> FALSE,
                result |-> Ids(IF frontend = "qt"
                               THEN get_annotations_in_window(annotations, ws, we)
                               ELSE drawExistingAnnotations(annotations, ws, we))]
    /\ UNCHANGED <<frontend, eeg_data, anno_mode, sel, annotations, nextId, pressX, keyLog, view, edf_file,
                   selected_annotation_channels,
                   panel, document, playback, collection_window_size, amplitude_scale, sample_matrix>>

---------------------------------------------------------------------------
(* Sample data.  Amplitudes are counted in millionths of a unit.  An array *)
(* is described by where its samples come from and by the filters that     *)
(* were run over them; the stored matrix of a recording by the filters run *)
(* over all of it and the windows of it that were overwritten.             *)

\* the names of the displayed channels, in row order:
\* [channel_names[i] for i in selected_channels] or channel_names
displayed_channel_names(rec, picked) ==
    IF picked = <<>> THEN channel_names(rec)
    ELSE [i \in DOMAIN picked |-> channel_names(rec)[picked[i] + 1]]

\* EEGData.sampling_freq (Hz)
sampling_freq(rec) == IF rec = "a.edf" THEN 250 ELSE 100

\* EEGData.n_samples
n_samples(rec) == (total_duration(rec) * sampling_freq(rec)) \div 10000

\* np.std of a channel of the recording: a.edf carries a signal on both
\* channels, b.edf is flat
channel_std(rec, name) ==
    IF rec = "a.edf" THEN (IF name = "C3" THEN 20 ELSE 40) ELSE 0

\* selected_data[:, start_sample:end_sample] with
\* start_sample = int(start * fs), end_sample = min(start_sample +
\* int(time_scale * fs), n_samples)
window_slice(rec, rows, filters, start, ts) ==
    LET start_sample == (start * sampling_freq(rec)) \div 10000
        end_sample == Min(start_sample + (ts * sampling_freq(rec)) \div 10000, n_samples(rec))
    IN  [rec     |-> rec,
         rows    |-> rows,
         from    |-> start_sample,
         to      |-> Max(start_sample, end_sample),
         filters |-> IF end_sample > start_sample THEN filters ELSE <<>>]

\* data.shape[1]
shape1(data) == data.to - data.from

\* raw.filter raises for a cutoff above the Nyquist frequency
filter_raises(cutoff, fs) == 2 * cutoff > fs

\* one raw_temp.filter call on the buffer of the RawArray: the samples are
\* filtered in place
filtered(buffer, kind, cutoff) ==
    IF "from" \in DOMAIN buffer /\ shape1(buffer) = 0
    THEN buffer
    ELSE [buffer EXCEPT !.filters = Append(@, <<kind, cutoff>>)]

\* the two filter calls inside the try block, lowpass first: the buffer as
\* they leave it and whether one of them raised
run_filters(buffer, fs, lowpass, highpass) ==
    LET low == IF lowpass = None THEN [buffer |-> buffer, raised |-> FALSE]
               ELSE IF filter_raises(lowpass[1], fs) THEN [buffer |-> buffer, raised |-> TRUE]
               ELSE [buffer |-> filtered(buffer, "lowpass", lowpass[1]), raised |-> FALSE]
    IN  IF low.raised \/ highpass = None THEN low
        ELSE IF filter_raises(highpass[1], fs) THEN [buffer |-> low.buffer, raised |-> TRUE]
        ELSE [buffer |-> filtered(low.buffer, "highpass", highpass[1]), raised |-> FALSE]

\* FilterHandler.apply_filters_array handing data itself to RawArray, which
\* takes a float array without copying it
apply_filters_array_nocopy(data, fs, lowpass, highpass) ==
    IF lowpass = None /\ highpass = None
    THEN [returned |-> data, data |-> data]
    ELSE LET run == run_filters(data, fs, lowpass, highpass)
         IN  [returned |-> run.buffer, data |-> run.buffer]

\* FilterHandler.apply_filters_array: what it returns and what the array
\* passed in holds afterwards; the filters run on data.copy()
apply_filters_array(data, fs, lowpass, highpass) ==
    IF lowpass = None /\ highpass = None
    THEN [returned |-> data, data |-> data]
    ELSE LET run == run_filters(data, fs, lowpass, highpass)
         IN  [returned |-> IF run.raised THEN data ELSE run.buffer, data |-> data]

\* np.median of a list of two or one values
median(stds) ==
    IF Len(stds) = 1 THEN stds[1] ELSE (stds[1] + stds[2]) \div 2

\* EEGPlotter._calculate_channel_spacing: 1.0 for an empty window, else 15
\* times the median of the positive channel deviations, 1e-5 standing in
\* for a median that is nan
calculate_channel_spacing(window_data) ==
    IF shape1(window_data) = 0
    THEN 1000000
    ELSE LET channel_stds == [i \in DOMAIN window_data.rows |->
                                channel_std(window_data.rec, window_data.rows[i])]
             positive == SelectSeq(channel_stds, LAMBDA s : s > 0)
             median_std == IF positive = <<>> THEN 10 ELSE median(positive)
         IN  median_std * 15

\* EEGPlotter.plot_eeg_data: the window drawn, the spacing, whether
\* _customize_plot raised on time_axis[0], and the stored matrix afterwards.
\* With no channel picked the window is a view of the stored matrix.
plot_window(rec, matrix, picked, start, ts, lowpass, highpass) ==
    LET window_data == window_slice(rec, displayed_channel_names(rec, picked), <<>>, start, ts)
        out == apply_filters_array(window_data, sampling_freq(rec), lowpass, highpass)
    IN  [window  |-> out.returned,
         spacing |-> calculate_channel_spacing(out.returned),
         raised  |-> shape1(out.returned) = 0,
         stored  |-> IF picked = <<>> /\ out.data # window_data
                     THEN [matrix EXCEPT !.patches = @ \cup {out.data}]
                     ELSE matrix]

\* eegDashboard.getFilteredData without the copy of self.eegData
getFilteredData_nocopy(matrix, fs, lowpass, highpass) ==
    LET run == IF lowpass = None /\ highpass = None
               THEN [buffer |-> matrix, raised |-> FALSE]
               ELSE run_filters(matrix, fs, lowpass, highpass)
    IN  [returned |-> run.buffer, eegData |-> run.buffer]

\* eegDashboard.getFilteredData: filteredData starts as a copy of
\* self.eegData, the RawArray works on that copy in place, and when a
\* filter call raises the copy is returned as it is by then
getFilteredData(matrix, fs, lowpass, highpass) ==
    LET run == IF lowpass = None /\ highpass = None
               THEN [buffer |-> matrix, raised |-> FALSE]
               ELSE run_filters(matrix, fs, lowpass, highpass)
    IN  [returned |-> run.buffer, eegData |-> matrix]

\* scaledChannelSpacing of eegDashboard.updatePlot: six times the median
\* deviation divided by the amplitude scale, 1e-5 when below 1e-6
scaledChannelSpacing(window_data, amplitude) ==
    LET channelStds == [i \in DOMAIN window_data.rows |->
                           channel_std(window_data.rec, window_data.rows[i])]
        scaled == (median(channelStds) * 6 * 10) \div amplitude
    IN  IF scaled < 1 THEN 10 ELSE scaled

\* eegDashboard.updatePlot: the window drawn, the spacing and the stored
\* matrix afterwards
updatePlot(rec, matrix, picked, start, ts, lowpass, highpass, amplitude) ==
    LET displayData == getFilteredData(matrix, sampling_freq(rec), lowpass, highpass)
        windowData == window_slice(rec, displayed_channel_names(rec, picked),
                                   displayData.returned.filters, start, ts)
    IN  [window  |-> windowData,
         spacing |-> scaledChannelSpacing(windowData, amplitude),
         raised  |-> shape1(windowData) = 0,
         stored  |-> displayData.eegData]

\* what the last plot of the running front end produced; every handler
\* that changes what is displayed ends by plotting
canvas ==
    IF frontend = "tk"
    THEN updatePlot(eeg_data, sample_matrix, selected_channels, current_window_start,
                    time_scale, lowpass_filter, highpass_filter, amplitude_scale)
    ELSE plot_window(eeg_data, sample_matrix, selected_channels, current_window_start,
                     time_scale, lowpass_filter, highpass_filter)

\* EEGPlotter.channel_spacing: 0 until the first plot
channel_spacing == IF eeg_data = NoRecording THEN 0 ELSE canvas.spacing

\* y_offset of EEGPlotter._plot_channels for the channel drawn at rank i
baseline(i, num_channels, spacing) == (num_channels - 1 - i) * spacing

\* Python's round(y / s) for s > 0: to the nearest integer, a tie to the
\* even one
round(y, s) ==
    LET q == y \div s
        r == y - q * s
    IN  IF 2 * r < s THEN q
        ELSE IF 2 * r > s THEN q + 1
        ELSE IF q % 2 = 0 THEN q ELSE q + 1

\* the display index counted from the bottom row
channel_rank_from_y_unmirrored(y, num_displayed_channels, spacing) ==
    round(y, spacing)

\* clicked_channel_display_index of _handle_channel_selection_click
channel_rank_from_y(y, num_displayed_channels, spacing) ==
    num_displayed_channels - 1 - round(y, spacing)

---------------------------------------------------------------------------
(* The annotation table, qt: AnnotationPanel *)

\* typing into the filter field: textChanged is connected to
\* _filter_annotations, which does nothing, so the rows stay as they are
\* until the next _update_all
set_search_text(text) ==
    /\ frontend = "qt"
    /\ text # search_text
    /\ search_text' = text
    /\ last' = [op |-> "search", cleared |-> FALSE]
    /\ UNCHANGED <<frontend, eeg_data, anno_mode, sel, annotations, nextId, pressX, keyLog,
                   view, edf_file, selected_annotation_channels, table, document, playback,
                   collection_window_size, amplitude_scale, sample_matrix>>

---------------------------------------------------------------------------
(* Display settings and navigation, qt: EEGDashboard *)

\* EEGDashboard._on_time_scale_change
on_time_scale_change(val) ==
    /\ frontend = "qt"
    /\ IF val = time_scale
       THEN UNCHANGED <<time_scale, last>>
       ELSE /\ time_scale' = val
            /\ last' = [op |-> "time_scale", cleared |-> FALSE]
    /\ update_all(eeg_data, annotations)
    /\ UNCHANGED <<frontend, eeg_data, anno_mode, sel, annotations, nextId, pressX, keyLog,
                   current_window_start, selected_channels, lowpass_filter, highpass_filter,
                   edf_file,
                   selected_annotation_channels,
                   search_text, document, playback, collection_window_size, amplitude_scale, sample_matrix>>

\* EEGDashboard._on_amplitude_scale_change; val is a value of the slider
on_amplitude_scale_change(val) ==
    /\ frontend = "qt"
    /\ IF val = amplitude_scale
       THEN UNCHANGED <<amplitude_scale, last>>
       ELSE /\ amplitude_scale' = val
            /\ last' = [op |-> "amplitude", cleared |-> FALSE]
    /\ update_all(eeg_data, annotations)
    /\ UNCHANGED <<frontend, eeg_data, anno_mode, sel, annotations, nextId, pressX, keyLog,
                   view, edf_file, selected_annotation_channels,
                   search_text, document, playback, collection_window_size, sample_matrix>>

\* LeftSidebarWidget._on_filter_change -> EEGDashboard._on_filter_change
on_filter_change(lp, hp) ==
    /\ frontend = "qt"
    /\ IF lp = lowpass_filter /\ hp = highpass_filter
       THEN UNCHANGED <<lowpass_filter, highpass_filter, last>>
       ELSE /\ lowpass_filter' = lp
            /\ highpass_filter' = hp
            /\ last' = [op |-> "filter", cleared |-> FALSE]
    /\ update_all(eeg_data, annotations)
    /\ sample_matrix' = IF eeg_data = NoRecording THEN sample_matrix
                        ELSE plot_window(eeg_data, sample_matrix, selected_channels,
                                         current_window_start, time_scale, lp, hp).stored
    /\ UNCHANGED <<frontend, eeg_data, anno_mode, sel, annotations, nextId, pressX, keyLog,
                   current_window_start, time_scale, selected_channels, edf_file,
                   selected_annotation_channels,
                   search_text, document, playback, collection_window_size, amplitude_scale>>

\* LeftSidebarWidget._apply_channel_selection -> _on_channel_selection_apply;
\* the check boxes exist once a recording is loaded
on_channel_selection_apply(picked) ==
    /\ frontend = "qt"
    /\ eeg_data # NoRecording
    /\ \A i \in DOMAIN picked : picked[i] < Len(channel_names(eeg_data))
    /\ IF picked = selected_channels
       THEN UNCHANGED <<selected_channels, last>>
       ELSE /\ selected_channels' = picked
            /\ last' = [op |-> "channels", cleared |-> FALSE]
    /\ update_all(eeg_data, annotations)
    /\ UNCHANGED <<frontend, eeg_data, anno_mode, sel, annotations, nextId, pressX, keyLog,
                   current_window_start, time_scale, lowpass_filter, highpass_filter, edf_file,
                   selected_annotation_channels,
                   search_text, document, playback, collection_window_size, amplitude_scale, sample_matrix>>

\* the closing clamp of _on_navigation without its upper bound
Clamp_noceil(start, ts, total) == Max(0, start)

\* max(0, min(start, total_duration - ts))
Clamp(start, ts, total) == Max(0, Min(start, total - ts))

\* EEGDashboard._on_navigation for the four positioning actions
on_navigation(action) ==
    /\ frontend = "qt"
    /\ IF eeg_data = NoRecording
       THEN UNCHANGED <<current_window_start, last>>
       ELSE LET ts == time_scale
                moved == CASE action = "next"     -> current_window_start + ts
                           [] action = "previous" -> current_window_start - ts
                           [] action = "first"    -> 0
                           [] action = "last"     -> total_duration(eeg_data) - ts
            IN  /\ current_window_start' = Clamp(moved, ts, total_duration(eeg_data))
                /\ last' = [op |-> "nav", action |-> action, cleared |-> FALSE]
    /\ IF eeg_data = NoRecording THEN UNCHANGED table ELSE update_all(eeg_data, annotations)
    /\ UNCHANGED <<frontend, eeg_data, anno_mode, sel, annotations, nextId, pressX, keyLog,
                   time_scale, selected_channels, lowpass_filter, highpass_filter, edf_file,
                   selected_annotation_channels,
                   search_text, document, playback, collection_window_size, amplitude_scale, sample_matrix>>

\* one step of auto-play: self.current_window_start += 1 (seconds)
PlaybackStep == 10000

\* NavigationWidget._toggle_play -> EEGDashboard._on_navigation("play" /
\* "pause") on the playback state pb: is_playing flips; without a recording
\* _on_navigation returns before it reaches the timer
toggle_play_of(pb, rec) ==
    [pb EXCEPT !.is_playing = ~pb.is_playing,
               !.timer_active = IF rec = NoRecording THEN pb.timer_active
                                ELSE ~pb.is_playing]

\* a click on the play button: the checkable button flips its checked state
\* and emits clicked, which runs _toggle_play
toggle_play ==
    /\ frontend = "qt"
    /\ playback' = toggle_play_of([playback EXCEPT !.checked = ~playback.checked], eeg_data)
    /\ last' = [op |-> IF playback'.is_playing THEN "play" ELSE "pause", cleared |-> FALSE]
    /\ IF eeg_data = NoRecording
       THEN UNCHANGED <<current_window_start, table>>
       ELSE /\ current_window_start' = Clamp(current_window_start, time_scale,
                                             total_duration(eeg_data))
            /\ update_all(eeg_data, annotations)
    /\ UNCHANGED <<frontend, eeg_data, anno_mode, sel, annotations, nextId, pressX, keyLog,
                   time_scale, selected_channels, lowpass_filter, highpass_filter, edf_file,
                   selected_annotation_channels,
                   search_text, document, collection_window_size, amplitude_scale, sample_matrix>>

\* a tick that goes on advancing although the window reaches the end
advance_playback_unstopped ==
    /\ frontend = "qt"
    /\ playback.timer_active
    /\ eeg_data # NoRecording
    /\ current_window_start' =
          IF current_window_start + time_scale >= total_duration(eeg_data)
          THEN 0 ELSE current_window_start + PlaybackStep
    /\ last' = [op |-> "tick", stopped |-> FALSE, cleared |-> FALSE]
    /\ update_all(eeg_data, annotations)
    /\ UNCHANGED <<frontend, eeg_data, anno_mode, sel, annotations, nextId, pressX, keyLog,
                   time_scale, selected_channels, lowpass_filter, highpass_filter, edf_file,
                   selected_annotation_channels,
                   search_text, document, playback, collection_window_size, amplitude_scale,
                   sample_matrix>>

\* EEGDashboard._advance_playback, the timeout of the playback timer: at the
\* end of the recording the timer is stopped, the button unchecked and
\* _toggle_play called; otherwise the window moves on by one second
advance_playback ==
    /\ frontend = "qt"
    /\ playback.timer_active
    /\ IF eeg_data = NoRecording
          \/ current_window_start + time_scale >= total_duration(eeg_data)
       THEN /\ playback' = toggle_play_of([playback EXCEPT !.timer_active = FALSE,
                                                            !.checked = FALSE], eeg_data)
            /\ last' = [op |-> "tick", stopped |-> TRUE, cleared |-> FALSE]
            /\ IF eeg_data = NoRecording
               THEN UNCHANGED <<current_window_start, table>>
               ELSE /\ current_window_start' = Clamp(current_window_start, time_scale,
                                                     total_duration(eeg_data))
                    /\ update_all(eeg_data, annotations)
       ELSE /\ current_window_start' = current_window_start + PlaybackStep
            /\ last' = [op |-> "tick", stopped |-> FALSE, cleared |-> FALSE]
            /\ update_all(eeg_data, annotations)
            /\ UNCHANGED playback
    /\ UNCHANGED <<frontend, eeg_data, anno_mode, sel, annotations, nextId, pressX, keyLog,
                   time_scale, selected_channels, lowpass_filter, highpass_filter, edf_file,
                   selected_annotation_channels,
                   search_text, document, collection_window_size, amplitude_scale, sample_matrix>>

\* EEGDashboard._jump_to_annotation for the table row that holds index idx
jump_to_annotation(idx) ==
    /\ frontend = "qt"
    /\ eeg_data # NoRecording
    /\ idx \in RowIndices
    /\ idx \in DOMAIN get_all_annotations(annotations)
    /\ LET ann == get_all_annotations(annotations)[idx]
           plot == plot_window(eeg_data, sample_matrix, selected_channels, ann.start_time,
                               time_scale, lowpass_filter, highpass_filter)
       IN  /\ current_window_start' = ann.start_time
           /\ last' = [op |-> "jump", id |-> ann.id, shown |-> ShownBy({idx}),
                       raised |-> plot.raised, cleared |-> FALSE]
           /\ IF plot.raised
              THEN /\ frontend' = Aborted
                   /\ UNCHANGED table
              ELSE /\ UNCHANGED frontend
                   /\ update_all(eeg_data, annotations)
    /\ UNCHANGED <<eeg_data, anno_mode, sel, annotations, nextId, pressX, keyLog,
                   time_scale, selected_channels, lowpass_filter, highpass_filter, edf_file,
                   selected_annotation_channels,
                   search_text, document, playback, collection_window_size, amplitude_scale, sample_matrix>>

\* EEGPlotter._on_mouse_press with button 3 ->
\* _handle_channel_selection_click on the row with display index row ->
\* EEGDashboard._on_channel_selection
handle_channel_selection_click(inaxes, y) ==
    /\ frontend = "qt"
    /\ IF ~inaxes \/ eeg_data = NoRecording \/ channel_spacing = 0
       THEN UNCHANGED <<selected_annotation_channels, last, table>>
       ELSE LET displayed == displayed_channel_names(eeg_data, selected_channels)
                num_displayed_channels == Len(displayed)
                clicked == channel_rank_from_y(y, num_displayed_channels, channel_spacing)
            IN  IF 0 <= clicked /\ clicked < num_displayed_channels
                THEN LET channel_name == displayed[clicked + 1]
                     IN  /\ selected_annotation_channels' =
                               IF channel_name \in selected_annotation_channels
                               THEN selected_annotation_channels \ {channel_name}
                               ELSE selected_annotation_channels \cup {channel_name}
                         /\ last' = [op |-> "channel_click", cleared |-> FALSE, y |-> y,
                                     rank |-> clicked, name |-> Some(channel_name)]
                         /\ update_all(eeg_data, annotations)
                ELSE /\ last' = [op |-> "channel_click", cleared |-> FALSE, y |-> y,
                                 rank |-> clicked, name |-> None]
                     /\ UNCHANGED <<selected_annotation_channels, table>>
    /\ UNCHANGED <<frontend, eeg_data, anno_mode, sel, annotations, nextId, pressX, keyLog,
                   view, edf_file,
                   search_text, document, playback, collection_window_size, amplitude_scale, sample_matrix>>

\* a drawing that puts a channel-scoped annotation on every displayed row
draw_annotations_every_row(all, window_start, window_size, displayed) ==
    LET window_end == window_start + window_size
        visible(a) == a.start_time < window_end /\ a.end_time > window_start
    IN  {[kind |-> "axvspan", id |-> all[k].id] :
            k \in {j \in DOMAIN all : all[j].channels = {} /\ visible(all[j])}}
        \cup
        {[kind |-> "axhspan", id |-> all[p[1]].id, row |-> p[2] - 1] :
            p \in {q \in (DOMAIN all) \X (DOMAIN displayed) :
                      /\ all[q[1]].channels # {}
                      /\ visible(all[q[1]])}}

\* EEGPlotter._draw_annotations: the patches drawn for the window.  A global
\* annotation gets one span over the whole height of the axes; a scoped one
\* gets a band on the row of each of its channels that is displayed.
draw_annotations(all, window_start, window_size, displayed) ==
    LET window_end == window_start + window_size
        visible(a) == a.start_time < window_end /\ a.end_time > window_start
    IN  {[kind |-> "axvspan", id |-> all[k].id] :
            k \in {j \in DOMAIN all : all[j].channels = {} /\ visible(all[j])}}
        \cup
        {[kind |-> "axhspan", id |-> all[p[1]].id, row |-> p[2] - 1] :
            p \in {q \in (DOMAIN all) \X (DOMAIN displayed) :
                      /\ all[q[1]].channels # {}
                      /\ displayed[q[2]] \in all[q[1]].channels
                      /\ visible(all[q[1]])}}

\* EEGDashboard._update_plot -> EEGPlotter.plot_eeg_data: the annotations
\* drawn for the current window
plot_eeg_data ==
    /\ frontend = "qt"
    /\ eeg_data # NoRecording
    /\ LET all == get_all_annotations(annotations)
           displayed == displayed_channel_names(eeg_data, selected_channels)
       IN  last' = [op |-> "plot", cleared |-> FALSE,
                    window_start |-> current_window_start,
                    window_size |-> time_scale,
                    displayed |-> displayed,
                    patches |-> IF all = <<>> THEN {}
                                ELSE draw_annotations(all, current_window_start,
                                                      time_scale, displayed)]
    /\ sample_matrix' = canvas.stored
    /\ UNCHANGED <<frontend, eeg_data, anno_mode, sel, annotations, nextId, pressX, keyLog,
                   view, edf_file, selected_annotation_channels,
                   panel, document, playback, collection_window_size, amplitude_scale>>

\* _update_window_info / updateWindowInfo: <<current window, total windows>>
window_info(start, ts, total) ==
    <<(start \div ts) + 1, (total + ts - 1) \div ts>>

---------------------------------------------------------------------------
(* Display settings and navigation, tk: eegDashboard *)

\* eegDashboard.onTimeScaleChange
onTimeScaleChange(val) ==
    /\ frontend = "tk"
    /\ IF val = time_scale
       THEN UNCHANGED <<time_scale, collection_window_size, last>>
       ELSE /\ time_scale' = val
            /\ collection_window_size' = val
            /\ last' = [op |-> "time_scale", cleared |-> FALSE]
    /\ UNCHANGED <<frontend, eeg_data, anno_mode, sel, annotations, nextId, pressX, keyLog,
                   current_window_start, selected_channels, lowpass_filter, highpass_filter,
                   edf_file,
                   selected_annotation_channels,
                   panel, document, playback, amplitude_scale, sample_matrix>>

\* eegDashboard.onAmplitudeScaleChange
onAmplitudeScaleChange(val) ==
    /\ frontend = "tk"
    /\ IF val = amplitude_scale
       THEN UNCHANGED <<amplitude_scale, last>>
       ELSE /\ amplitude_scale' = val
            /\ last' = [op |-> "amplitude", cleared |-> FALSE]
    /\ UNCHANGED <<frontend, eeg_data, anno_mode, sel, annotations, nextId, pressX, keyLog,
                   view, edf_file, selected_annotation_channels,
                   panel, document, playback, collection_window_size, sample_matrix>>

\* eegDashboard.onFilterChange
onFilterChange(lp, hp) ==
    /\ frontend = "tk"
    /\ IF lp = lowpass_filter /\ hp = highpass_filter
       THEN UNCHANGED <<lowpass_filter, highpass_filter, last>>
       ELSE /\ lowpass_filter' = lp
            /\ highpass_filter' = hp
            /\ last' = [op |-> "filter", cleared |-> FALSE]
    /\ sample_matrix' = IF eeg_data = NoRecording THEN sample_matrix
                        ELSE updatePlot(eeg_data, sample_matrix, selected_channels,
                                        current_window_start, time_scale, lp, hp,
                                        amplitude_scale).stored
    /\ UNCHANGED <<frontend, eeg_data, anno_mode, sel, annotations, nextId, pressX, keyLog,
                   current_window_start, time_scale, selected_channels, edf_file,
                   selected_annotation_channels,
                   panel, document, playback, collection_window_size, amplitude_scale>>

\* applyChannelSelection of eegDashboard.openChannelSettings
applyChannelSelection(picked) ==
    /\ frontend = "tk"
    /\ eeg_data # NoRecording
    /\ \A i \in DOMAIN picked : picked[i] < Len(channel_names(eeg_data))
    /\ IF picked = <<>> \/ picked = selected_channels
       THEN UNCHANGED <<selected_channels, last>>
       ELSE /\ selected_channels' = picked
            /\ last' = [op |-> "channels", cleared |-> FALSE]
    /\ UNCHANGED <<frontend, eeg_data, anno_mode, sel, annotations, nextId, pressX, keyLog,
                   current_window_start, time_scale, lowpass_filter, highpass_filter, edf_file,
                   selected_annotation_channels,
                   panel, document, playback, collection_window_size, amplitude_scale, sample_matrix>>

\* the window start a tk navigation button leads to
tk_navigate(action, start, ts, total) ==
    CASE action = "next"     -> IF start + ts < total THEN start + ts ELSE start
      [] action = "previous" -> IF start > 0 THEN Max(0, start - ts) ELSE start
      [] action = "jump_forward" ->
            IF start + ts * 5 < total THEN start + ts * 5 ELSE Max(0, total - ts)
      [] action = "jump_backward" -> Max(0, start - ts * 5)

\* eegDashboard.nextWindow / previousWindow / jumpForward / jumpBackward
tk_navigation(action) ==
    /\ frontend = "tk"
    /\ IF eeg_data = NoRecording
       THEN UNCHANGED <<current_window_start, last>>
       ELSE LET moved == tk_navigate(action, current_window_start, time_scale,
                                     total_duration(eeg_data))
            IN  IF action \in {"next", "previous"} /\ moved = current_window_start
                THEN UNCHANGED <<current_window_start, last>>
                ELSE /\ current_window_start' = moved
                     /\ last' = [op |-> "nav", action |-> action, cleared |-> FALSE]
    /\ UNCHANGED <<frontend, eeg_data, anno_mode, sel, annotations, nextId, pressX, keyLog,
                   time_scale, selected_channels, lowpass_filter, highpass_filter, edf_file,
                   selected_annotation_channels,
                   panel, document, playback, collection_window_size, amplitude_scale, sample_matrix>>

---------------------------------------------------------------------------
(* Annotation documents.  A document is a record; json is FALSE for a file *)
(* json.load refuses.  An entry of its annotations is a record with the    *)
(* keys the file holds.                                                    *)

\* Annotation.to_dict: text, startTime, endTime, duration, color (and the
\* creation timestamp, not modelled); no channels key is written
Annotation_to_dict(a) ==
    [text      |-> a.text,
     startTime |-> a.start_time,
     endTime   |-> a.end_time,
     duration  |-> a.duration,
     color     |-> a.color]

\* AnnotationCollection.to_dict
to_dict(d, edf, window_size) ==
    [json        |-> TRUE,
     edfFile     |-> edf,
     windowSize  |-> window_size,
     annotations |-> [i \in DOMAIN d |->
                        [key  |-> d[i].key,
                         list |-> [j \in DOMAIN d[i].list |->
                                     Annotation_to_dict(d[i].list[j])]]]]

\* the dict eegDashboard.addSelectedAnnotation stored, dumped as it is
dumped(a) ==
    (IF "text" \in DOMAIN a THEN [text |-> a.text] ELSE <<>>) @@
    (IF a.color # NoColor THEN [color |-> a.color] ELSE <<>>) @@
    [startTime |-> a.start_time, endTime |-> a.end_time, duration |-> a.duration]

\* annotationData of eegDashboard.saveAnnotations
annotationData(d, edf, windowSizeSeconds) ==
    [json        |-> TRUE,
     edfFile     |-> edf,
     windowSize  |-> windowSizeSeconds,
     annotations |-> [i \in DOMAIN d |->
                        [key  |-> d[i].key,
                         list |-> [j \in DOMAIN d[i].list |-> dumped(d[i].list[j])]]]]

\* files found on disk: one written before channel scoping existed, one
\* written after the first of two annotations had been removed (its only key
\* is annotation_1), one whose entry lacks its text, one that is not JSON
LegacyEntry ==
    [text |-> <<"Seizure">>, startTime |-> 1000, endTime |-> 3000, duration |-> 2000,
     color |-> annotation_colors(<<"Seizure">>)]

PartialEntry == [startTime |-> 1000, endTime |-> 3000, duration |-> 2000]

OnDisk(path) ==
    CASE path = "legacy.json" ->
            [json |-> TRUE, edfFile |-> "a.edf", windowSize |-> DefaultTimeScale,
             annotations |-> <<[key |-> Key(0), list |-> <<LegacyEntry>>]>>]
      [] path = "sparse.json" ->
            [json |-> TRUE, edfFile |-> "a.edf", windowSize |-> DefaultTimeScale,
             annotations |-> <<[key |-> Key(1), list |-> <<LegacyEntry>>]>>]
      [] path = "partial.json" ->
            [json |-> TRUE, edfFile |-> "a.edf", windowSize |-> DefaultTimeScale,
             annotations |-> <<[key |-> Key(0), list |-> <<PartialEntry>>]>>]
      [] OTHER -> [json |-> FALSE]

\* open(file_path) and json.load: None when either raises
read_json(path) ==
    IF path = "out.json"
    THEN document
    ELSE IF OnDisk(path).json THEN Some(OnDisk(path)) ELSE None

\* number of annotations in the entries before the i-th
RECURSIVE Before(_, _)
Before(entries, i) == IF i = 1 THEN 0 ELSE Before(entries, i - 1) + Len(entries[i - 1].list)

CountEntries(entries) == Before(entries, Len(entries) + 1)

\* the keys Annotation(...) is built from in load_annotations
AnnotationKeys == {"text", "startTime", "endTime", "duration", "color"}

\* the keys AnnotationValidator.validate_annotation_data requires; the
\* program never calls it
ValidatorKeys == AnnotationKeys \cup {"channels"}

\* Annotation(text=ann['text'], ...) of load_annotations: a new object,
\* built without a channels argument
Annotation_from_dict(id, ann) ==
    with_channels([id         |-> id,
                   text       |-> ann.text,
                   start_time |-> ann.startTime,
                   end_time   |-> ann.endTime,
                   duration   |-> ann.duration,
                   color      |-> ann.color],
                  {})

\* AnnotationFileHandler.load_annotations with the keys it insists on:
\* None for a cancelled dialog, a file that does not parse, or an entry
\* without one of the keys
load_annotations_requiring(path, base, required) ==
    IF path = "" \/ read_json(path) = None
    THEN None
    ELSE LET data == read_json(path)[1]
             entries == data.annotations
         IN  IF \E i \in DOMAIN entries : \E j \in DOMAIN entries[i].list :
                    ~(required \subseteq DOMAIN entries[i].list[j])
             THEN None
             ELSE Some([annotations |->
                           [i \in DOMAIN entries |->
                              [key  |-> entries[i].key,
                               list |-> [j \in DOMAIN entries[i].list |->
                                           Annotation_from_dict(base + Before(entries, i) + j - 1,
                                                                entries[i].list[j])]]],
                        edf_file    |-> data.edfFile,
                        window_size |-> data.windowSize])

load_annotations_validated(path, base) ==
    load_annotations_requiring(path, base, ValidatorKeys)

load_annotations(path, base) ==
    load_annotations_requiring(path, base, AnnotationKeys)

\* EEGDashboard._on_save_annotations
on_save_annotations(path) ==
    /\ frontend = "qt"
    /\ annotations # <<>>
    /\ path # ""
    /\ document' = Some(to_dict(annotations, edf_file, collection_window_size))
    /\ last' = [op |-> "save", cleared |-> FALSE]
    /\ UNCHANGED <<frontend, eeg_data, anno_mode, sel, annotations, nextId, pressX, keyLog,
                   view, edf_file, selected_annotation_channels, panel,
                   collection_window_size, amplitude_scale, sample_matrix, playback>>

\* EEGDashboard._on_load_annotations
on_load_annotations(path) ==
    /\ frontend = "qt"
    /\ LET coll == load_annotations(path, nextId)
       IN  IF coll = None
           THEN /\ last' = [op |-> "load_annotations", loaded |-> FALSE, cleared |-> FALSE,
                            path |-> path]
                /\ UNCHANGED <<annotations, nextId, keyLog, edf_file, table,
                               collection_window_size>>
           ELSE /\ nextId + CountEntries(coll[1].annotations) <= MaxInserts
                /\ annotations' = coll[1].annotations
                /\ nextId' = nextId + CountEntries(coll[1].annotations)
                /\ keyLog' = <<>>
                /\ edf_file' = coll[1].edf_file
                /\ collection_window_size' = coll[1].window_size
                /\ last' = [op |-> "load_annotations", loaded |-> TRUE, cleared |-> FALSE,
                            path |-> path]
                /\ update_all(eeg_data, coll[1].annotations)
    /\ UNCHANGED <<frontend, eeg_data, anno_mode, sel, pressX, view,
                   selected_annotation_channels, search_text, document, playback,
                   amplitude_scale, sample_matrix>>

\* eegDashboard.saveAnnotations
saveAnnotations(path) ==
    /\ frontend = "tk"
    /\ annotations # <<>>
    /\ path # ""
    /\ document' = Some(annotationData(annotations, edf_file, collection_window_size))
    /\ last' = [op |-> "save", cleared |-> FALSE]
    /\ UNCHANGED <<frontend, eeg_data, anno_mode, sel, annotations, nextId, pressX, keyLog,
                   view, edf_file, selected_annotation_channels, panel,
                   collection_window_size, amplitude_scale, sample_matrix, playback>>

\* the dicts of a parsed document, kept as they are; id stands for the
\* identity of the new object
parsed(id, ann) ==
    (IF "text" \in DOMAIN ann THEN [text |-> ann.text] ELSE <<>>) @@
    [id         |-> id,
     start_time |-> ann.startTime,
     end_time   |-> ann.endTime,
     duration   |-> ann.duration,
     color      |-> IF "color" \in DOMAIN ann THEN ann.color ELSE NoColor]

\* updateCurrentAnnotationsDisplay, called at the end of updatePlot, reads
\* annotation['text'] of every annotation that overlaps the window
updatePlot_raises(rec, d, windowStart, windowEnd) ==
    /\ rec # NoRecording
    /\ \E i \in DOMAIN drawExistingAnnotations(d, windowStart, windowEnd) :
          "text" \notin DOMAIN drawExistingAnnotations(d, windowStart, windowEnd)[i]

\* eegDashboard.loadAnnotations: the parsed annotations are assigned before
\* updatePlot runs inside the same try block
loadAnnotations(path) ==
    /\ frontend = "tk"
    /\ IF path = "" \/ read_json(path) = None
       THEN /\ last' = [op |-> "load_annotations", loaded |-> FALSE, cleared |-> FALSE,
                        path |-> path]
            /\ UNCHANGED <<annotations, nextId, keyLog>>
       ELSE LET entries == read_json(path)[1].annotations
                loaded == [i \in DOMAIN entries |->
                             [key  |-> entries[i].key,
                              list |-> [j \in DOMAIN entries[i].list |->
                                          parsed(nextId + Before(entries, i) + j - 1,
                                                 entries[i].list[j])]]]
            IN  /\ nextId + CountEntries(entries) <= MaxInserts
                /\ annotations' = loaded
                /\ nextId' = nextId + CountEntries(entries)
                /\ keyLog' = <<>>
                /\ last' = [op |-> "load_annotations", cleared |-> FALSE,
                            loaded |-> ~updatePlot_raises(eeg_data, loaded, current_window_start,
                                            current_window_start + collection_window_size),
                            path |-> path]
    /\ UNCHANGED <<frontend, eeg_data, anno_mode, sel, pressX, view, edf_file,
                   selected_annotation_channels, panel, document, playback,
                   collection_window_size, amplitude_scale, sample_matrix>>

---------------------------------------------------------------------------

Next ==
    \/ ToggleAnnotationMode
    \/ \E picked \in WorkPicks : load_eeg_file(picked)
    \/ \E x \in XS, inaxes \in InAxes, button \in Buttons : handle_mouse_press(x, inaxes, button)
    \/ \E x \in XS, inaxes \in InAxes, button \in Buttons : handle_mouse_move(x, inaxes, button)
    \/ \E x \in XS, inaxes \in InAxes, button \in Buttons, dlg \in DialogRuns :
          handle_mouse_release(x, inaxes, button, dlg)
    \/ \E idx \in DOMAIN get_all_annotations(annotations) :
          \E dlg \in EditRuns(get_all_annotations(annotations)[idx]) : on_edit_annotation(idx, dlg)
    \/ \E indices \in SUBSET DOMAIN get_all_annotations(annotations) : on_delete_selected_annotation(indices)
    \/ \E picked \in WorkPicks : loadEdfFile(picked)
    \/ \E x \in XS, inaxes \in InAxes, button \in Buttons : onMousePress(x, inaxes, button)
    \/ \E x \in XS, inaxes \in InAxes : onMouseMove(x, inaxes)
    \/ \E x \in XS, inaxes \in InAxes : onMouseRelease(x, inaxes)
    \/ clearSelection
    \/ \E entry \in DialogTexts : addSelectedAnnotation(entry)
    \/ \E ws \in WindowEdges, we \in WindowEdges : QueryOverlapping(ws, we)

Spec == Init /\ [][Next]_vars

---------------------------------------------------------------------------
(* Loading, display settings and navigation, with one gesture and one     *)
(* label so that the annotation state a load meets is not always empty    *)

TkNavActions == {"next", "previous", "jump_forward", "jump_backward"}
ViewPress == {4}
ViewRelease == {1004}
ViewDialog == {[button |-> "ok", text |-> <<"Seizure">>]}

NextView ==
    \/ ToggleAnnotationMode
    \/ \E picked \in Picks : load_eeg_file(picked)
    \/ \E picked \in Picks : loadEdfFile(picked)
    \/ \E val \in TimeScales : on_time_scale_change(val)
    \/ \E val \in TimeScales : onTimeScaleChange(val)
    \/ \E f \in FilterChoices : on_filter_change(f[1], f[2])
    \/ \E f \in FilterChoices : onFilterChange(f[1], f[2])
    \/ \E picked \in ChannelPicks : on_channel_selection_apply(picked)
    \/ \E picked \in ChannelPicks : applyChannelSelection(picked)
    \/ \E action \in NavActions : on_navigation(action)
    \/ \E action \in TkNavActions : tk_navigation(action)
    \/ \E idx \in DOMAIN get_all_annotations(annotations) : jump_to_annotation(idx)
    \/ \E x \in ViewPress, inaxes \in InAxes \ {FALSE} : handle_mouse_press(x, inaxes, 1)
    \/ \E x \in ViewRelease, dlg \in ViewDialog, inaxes \in InAxes \ {FALSE} : handle_mouse_release(x, inaxes, 1, dlg)
    \/ \E x \in ViewPress, inaxes \in InAxes \ {FALSE} : onMousePress(x, inaxes, 1)
    \/ \E x \in ViewRelease, inaxes \in InAxes \ {FALSE} : onMouseRelease(x, inaxes)
    \/ \E dlg \in ViewDialog : addSelectedAnnotation(dlg.text)

SpecView == Init /\ [][NextView]_vars

---------------------------------------------------------------------------
(* Labelling: one gesture, several labels at the prompt and in the edit   *)
(* dialog                                                                  *)

\* labels typed or chosen: two of the predefined ones and a free text
LabelTexts == {<<"Seizure">>, <<"Spike">>, <<"note">>}

\* runs of the edit dialog that change at most the label
LabelEditRuns(ann) ==
    [button     : {"ok"},
     text       : LabelTexts,
     start_time : {SpinValue(ann.start_time)},
     end_time   : {SpinValue(ann.end_time)}]

NextLabels ==
    \/ ToggleAnnotationMode
    \/ \E picked \in WorkPicks : load_eeg_file(picked)
    \/ \E picked \in WorkPicks : loadEdfFile(picked)
    \/ \E x \in ViewPress, inaxes \in InAxes \ {FALSE} : handle_mouse_press(x, inaxes, 1)
    \/ \E x \in ViewRelease, text \in LabelTexts, inaxes \in InAxes \ {FALSE} :
          handle_mouse_release(x, inaxes, 1, [button |-> "ok", text |-> text])
    \/ \E idx \in DOMAIN get_all_annotations(annotations) :
          \E dlg \in LabelEditRuns(get_all_annotations(annotations)[idx]) :
             on_edit_annotation(idx, dlg)
    \/ \E x \in ViewPress, inaxes \in InAxes \ {FALSE} : onMousePress(x, inaxes, 1)
    \/ \E x \in ViewRelease, inaxes \in InAxes \ {FALSE} : onMouseRelease(x, inaxes)
    \/ \E text \in LabelTexts : addSelectedAnnotation(text)

SpecLabels == Init /\ [][NextLabels]_vars

---------------------------------------------------------------------------
(* Channel-scoped annotations (qt): right clicks pick channels, gestures   *)
(* up to and beyond one window length store annotations, and the plot of   *)
(* the current window is observed.                                         *)

\* the y of a click on the baseline of a display row
row_y(row) ==
    baseline(row, Len(displayed_channel_names(eeg_data, selected_channels)), channel_spacing)

ChanPress == {4, 100000}
ChanRelease == {100000, 104000}
ChanRows == {-1, 0, 1}
ChanScales == {100000}
ChanNav == {"next", "previous"}
ChanPicks == {<<>>, <<1>>}

NextChannels ==
    \/ ToggleAnnotationMode
    \/ \E picked \in WorkPicks : load_eeg_file(picked)
    \/ \E inaxes \in InAxes, row \in ChanRows : handle_channel_selection_click(inaxes, row_y(row))
    \/ \E x \in ChanPress, inaxes \in InAxes \ {FALSE} : handle_mouse_press(x, inaxes, 1)
    \/ \E x \in ChanRelease, dlg \in ViewDialog, inaxes \in InAxes \ {FALSE} : handle_mouse_release(x, inaxes, 1, dlg)
    \/ \E val \in ChanScales : on_time_scale_change(val)
    \/ \E action \in ChanNav : on_navigation(action)
    \/ \E picked \in ChanPicks : on_channel_selection_apply(picked)
    \/ plot_eeg_data

SpecChannels == Init /\ [][NextChannels]_vars

---------------------------------------------------------------------------
(* The annotation table (qt): annotations with two labels are stored, the  *)
(* filter field is typed into, and rows are resolved by delete, edit, jump *)

SearchTexts == {<<>>, <<"Spike">>, <<"seizure">>}
TableLabels == {<<"Seizure">>, <<"Spike">>}

NextTable ==
    \/ ToggleAnnotationMode
    \/ \E p \in WorkPicks : load_eeg_file(p)
    \/ \E x \in ViewPress, inaxes \in InAxes \ {FALSE} : handle_mouse_press(x, inaxes, 1)
    \/ \E x \in ViewRelease, text \in TableLabels, inaxes \in InAxes \ {FALSE} :
          handle_mouse_release(x, inaxes, 1, [button |-> "ok", text |-> text])
    \/ \E text \in SearchTexts : set_search_text(text)
    \/ \E checked \in SUBSET DOMAIN table, current \in 0..Len(table) :
          on_delete_selected_annotation(get_selected_annotation_indices(checked, current))
    \/ \E checked \in SUBSET DOMAIN table, current \in 0..Len(table) :
          LET idx == get_selected_annotation_index(checked, current)
          IN  /\ idx # None
              /\ idx[1] \in DOMAIN get_all_annotations(annotations)
              /\ \E dlg \in LabelEditRuns(get_all_annotations(annotations)[idx[1]]) :
                    on_edit_annotation(idx[1], dlg)
    \/ \E r \in DOMAIN table : jump_to_annotation(table[r].index)

SpecTable == Init /\ [][NextTable]_vars

---------------------------------------------------------------------------
(* Annotation documents: annotations, global or scoped to a channel, are   *)
(* stored, written to out.json and read back, or read from files on disk   *)

DocRows == {0}

NextDocs ==
    \/ ToggleAnnotationMode
    \/ \E picked \in WorkPicks : load_eeg_file(picked)
    \/ \E picked \in WorkPicks : loadEdfFile(picked)
    \/ \E val \in TimeScales : on_time_scale_change(val)
    \/ \E val \in TimeScales : onTimeScaleChange(val)
    \/ \E inaxes \in InAxes \ {FALSE}, row \in DocRows : handle_channel_selection_click(inaxes, row_y(row))
    \/ \E x \in ViewPress, inaxes \in InAxes \ {FALSE} : handle_mouse_press(x, inaxes, 1)
    \/ \E x \in ViewRelease, dlg \in ViewDialog, inaxes \in InAxes \ {FALSE} : handle_mouse_release(x, inaxes, 1, dlg)
    \/ \E x \in ViewPress, inaxes \in InAxes \ {FALSE} : onMousePress(x, inaxes, 1)
    \/ \E x \in ViewRelease, inaxes \in InAxes \ {FALSE} : onMouseRelease(x, inaxes)
    \/ \E dlg \in ViewDialog : addSelectedAnnotation(dlg.text)
    \/ \E path \in SavePaths : on_save_annotations(path)
    \/ \E path \in SavePaths : saveAnnotations(path)
    \/ \E path \in AnnotationPaths : on_load_annotations(path)
    \/ \E path \in AnnotationPaths : loadAnnotations(path)

SpecDocs == Init /\ [][NextDocs]_vars

---------------------------------------------------------------------------
(* Rendering: recordings with a signal and flat, filter settings that the  *)
(* filter accepts and refuses, both amplitude scales                       *)

\* lowpass / highpass: none; 30 Hz / 1 Hz; 70 Hz alone, above the Nyquist
\* frequency of b.edf; 30 Hz / 100 Hz, where only the highpass is
RenderFilters == {<<None, None>>, <<Some(30), Some(1)>>, <<Some(70), None>>,
                  <<Some(30), Some(100)>>}
RenderPicks == {<<>>, <<0>>}
RenderNav == {"first", "last"}

NextRender ==
    \/ \E picked \in Recordings : load_eeg_file(picked)
    \/ \E picked \in Recordings : loadEdfFile(picked)
    \/ \E f \in RenderFilters : on_filter_change(f[1], f[2])
    \/ \E f \in RenderFilters : onFilterChange(f[1], f[2])
    \/ \E val \in AmplitudeScales : on_amplitude_scale_change(val)
    \/ \E val \in AmplitudeScales : onAmplitudeScaleChange(val)
    \/ \E val \in TimeScales : on_time_scale_change(val)
    \/ \E val \in TimeScales : onTimeScaleChange(val)
    \/ \E action \in RenderNav : on_navigation(action)
    \/ \E action \in TkNavActions : tk_navigation(action)
    \/ \E picked \in RenderPicks : on_channel_selection_apply(picked)
    \/ \E picked \in RenderPicks : applyChannelSelection(picked)
    \/ plot_eeg_data

SpecRender == Init /\ [][NextRender]_vars

---------------------------------------------------------------------------
(* Right clicks on the plot (qt), at and between the baselines *)

\* clicks at multiples of half the channel spacing
ClickHalves == -2..4

NextClicks ==
    \/ \E picked \in Recordings : load_eeg_file(picked)
    \/ \E picked \in RenderPicks : on_channel_selection_apply(picked)
    \/ \E val \in TimeScales : on_time_scale_change(val)
    \/ \E action \in RenderNav : on_navigation(action)
    \/ \E inaxes \in InAxes, k \in ClickHalves :
          handle_channel_selection_click(inaxes, (k * channel_spacing) \div 2)

SpecClicks == Init /\ [][NextClicks]_vars

---------------------------------------------------------------------------
(* A window that overhangs the end of the recording after the time scale   *)
(* was raised, a drag over the part of it beyond the end, and a jump to    *)
(* the annotation made there                                               *)

OverhangPress == {4, 310000}
OverhangRelease == {1004, 311000}

\* x positions the displayed axes cover
InWindow(x) == current_window_start <= x /\ x <= current_window_start + time_scale

NextOverhang ==
    \/ ToggleAnnotationMode
    \/ \E picked \in WorkPicks : load_eeg_file(picked)
    \/ \E picked \in WorkPicks : loadEdfFile(picked)
    \/ \E val \in TimeScales : on_time_scale_change(val)
    \/ \E val \in TimeScales : onTimeScaleChange(val)
    \/ \E action \in RenderNav : on_navigation(action)
    \/ \E action \in TkNavActions : tk_navigation(action)
    \/ \E x \in OverhangPress, inaxes \in InAxes \ {FALSE} :
          InWindow(x) /\ handle_mouse_press(x, inaxes, 1)
    \/ \E x \in OverhangRelease, dlg \in ViewDialog, inaxes \in InAxes \ {FALSE} :
          InWindow(x) /\ handle_mouse_release(x, inaxes, 1, dlg)
    \/ \E idx \in DOMAIN get_all_annotations(annotations) : jump_to_annotation(idx)
    \/ plot_eeg_data

SpecOverhang == Init /\ [][NextOverhang]_vars

---------------------------------------------------------------------------
(* Scoped gestures: two recordings with different channels, right clicks   *)
(* that pick channels, drags in both directions, every run of the prompt   *)

ScopedPress == {4, 1004}
ScopedMove == {504}
ScopedRelease == {4, 1004, 2006}
ScopedRows == {0, 1}

NextScoped ==
    \/ ToggleAnnotationMode
    \/ \E picked \in Recordings : load_eeg_file(picked)
    \/ \E picked \in Recordings : loadEdfFile(picked)
    \/ \E inaxes \in InAxes \ {FALSE}, row \in ScopedRows :
          handle_channel_selection_click(inaxes, row_y(row))
    \/ \E x \in ScopedPress, inaxes \in InAxes, button \in Buttons :
          handle_mouse_press(x, inaxes, button)
    \/ \E x \in ScopedMove, inaxes \in InAxes, button \in Buttons :
          handle_mouse_move(x, inaxes, button)
    \/ \E x \in ScopedRelease, inaxes \in InAxes, button \in Buttons, dlg \in DialogRuns :
          handle_mouse_release(x, inaxes, button, dlg)
    \/ \E x \in ScopedPress, inaxes \in InAxes, button \in Buttons :
          onMousePress(x, inaxes, button)
    \/ \E x \in ScopedMove, inaxes \in InAxes : onMouseMove(x, inaxes)
    \/ \E x \in ScopedRelease, inaxes \in InAxes : onMouseRelease(x, inaxes)
    \/ clearSelection
    \/ \E entry \in DialogTexts : addSelectedAnnotation(entry)

SpecScoped == Init /\ [][NextScoped]_vars

---------------------------------------------------------------------------
(* Auto-play (qt), with the events that move the window or change its      *)
(* length: navigation, the time scale, and a jump to an annotation made at *)
(* 15.5 s                                                                  *)

PlaybackPress == {155004}
PlaybackRelease == {165004}

NextPlayback ==
    \/ ToggleAnnotationMode
    \/ \E picked \in WorkPicks : load_eeg_file(picked)
    \/ \E picked \in WorkPicks : loadEdfFile(picked)
    \/ \E val \in TimeScales : on_time_scale_change(val)
    \/ \E val \in TimeScales : onTimeScaleChange(val)
    \/ \E action \in RenderNav : on_navigation(action)
    \/ \E action \in TkNavActions : tk_navigation(action)
    \/ \E x \in PlaybackPress, inaxes \in InAxes \ {FALSE} :
          InWindow(x) /\ handle_mouse_press(x, inaxes, 1)
    \/ \E x \in PlaybackRelease, dlg \in ViewDialog, inaxes \in InAxes \ {FALSE} :
          InWindow(x) /\ handle_mouse_release(x, inaxes, 1, dlg)
    \/ \E idx \in DOMAIN get_all_annotations(annotations) : jump_to_annotation(idx)
    \/ toggle_play
    \/ advance_playback

SpecPlayback == Init /\ [][NextPlayback]_vars

\* the playback timer is a repeating QTimer: while it is active its timeout
\* keeps being delivered
SpecPlaybackFair == SpecPlayback /\ WF_vars(advance_playback)

---------------------------------------------------------------------------
(* Properties *)

\* the annotations held in the store
Stored == {Values(annotations)[i] : i \in DOMAIN Values(annotations)}

\* the last step was a release that ended a drag inside the plot
ReleasedInside == last.op = "release" /\ last.outcome \in {"committed", "too_short"}

\* the last step inserted an annotation
Inserted ==
    \/ last.op = "add"
    \/ last.op = "release" /\ last.outcome = "committed" /\ last.commit = "inserted"

\* C1: the range-overlap query for a window [ws, we) returns a stored
\* annotation A exactly when A.start < we and A.end > ws; an annotation that
\* only touches a boundary of the window (A.end = ws or A.start = we) is not
\* returned.
C1_QueryIsStrictOverlap ==
    last.op = "query" =>
        /\ last.result = {a.id : a \in {b \in Stored : b.start_time < last.we /\ b.end_time > last.ws}}
        /\ \A a \in Stored :
              (a.end_time = last.ws \/ a.start_time = last.we) => a.id \notin last.result

\* a query whose window starts where one stored annotation ends, which is
\* left out while another annotation is returned
C1_Witness ==
    /\ last.op = "query"
    /\ last.result # {}
    /\ \E a \in Stored : a.end_time = last.ws /\ a.start_time < a.end_time /\ a.id \notin last.result

\* C2: within one session every key returned by an insert differs from every
\* key an insert returned before, also when the earlier annotation has been
\* removed since.
C2_KeysNeverReused ==
    \A i \in DOMAIN keyLog : \A j \in DOMAIN keyLog : i # j => keyLog[i] # keyLog[j]

\* C3: in every reachable state has_selection is true exactly when both
\* times are set and lie at least 0.1 s (1000 ticks) apart; a 0.05 s drag
\* from 5.0 s has no selection and a 0.2 s drag has one.
C3_HasSelectionIffLongEnough ==
    /\ has_selection(sel) <=>
          /\ Len(sel.start_time) = 1
          /\ Len(sel.end_time) = 1
          /\ \/ sel.end_time[1] - sel.start_time[1] >= 1000
             \/ sel.start_time[1] - sel.end_time[1] >= 1000
    /\ ~has_selection([SelectionState EXCEPT !.start_time = Some(50000), !.end_time = Some(50500)])
    /\ has_selection([SelectionState EXCEPT !.start_time = Some(50000), !.end_time = Some(52000)])

\* a drag in progress that spans exactly 0.1 s
C3_Witness ==
    /\ sel.is_selecting /\ sel.mouse_pressed
    /\ sel.start_time # None /\ sel.end_time # None
    /\ Abs(sel.end_time[1] - sel.start_time[1]) = MinSelection
    /\ has_selection(sel)

\* C4: a gesture pressed at x0 and released inside the plot at x1, at least
\* 0.1 s from x0, commits the selection start = min(x0, x1) and
\* end = max(x0, x1), whatever positions the moves in between went through.
C4_CommitIsMinMax ==
    (ReleasedInside /\ Abs(last.x1 - last.x0[1]) >= 1000) =>
        /\ last.outcome = "committed"
        /\ last.start = Min(last.x0[1], last.x1)
        /\ last.end = Max(last.x0[1], last.x1)

\* C5: a release that ends a drag inside the plot commits exactly when the
\* normalised selection lasts at least 0.1 s and otherwise cancels and clears
\* the selection; no annotation is inserted from a selection shorter than
\* 0.1 s.
C5_CommitIffLongEnough ==
    /\ ReleasedInside =>
          /\ last.outcome = "committed" <=> last.end - last.start >= 1000
          /\ last.outcome = "too_short" =>
                sel.start_time = None /\ sel.end_time = None /\ ~sel.is_selecting
    /\ Inserted => Abs(last.end - last.start) >= 1000

\* C6: after a successful annotation commit, after a cancelled label prompt
\* and after a gesture that was too short, the selection is idle: both times
\* unset, is_selecting and mouse_pressed false.
C6_IdleAfterCommitCancelInvalid ==
    (\/ Inserted
     \/ last.op = "release" /\ last.outcome = "committed" /\ last.commit = "cancelled"
     \/ last.op = "release" /\ last.outcome = "too_short") =>
        /\ sel.start_time = None /\ sel.end_time = None
        /\ ~sel.is_selecting /\ ~sel.mouse_pressed

\* C7: clearing the selection in any state, mid-drag included, gives the
\* state of a freshly constructed manager: times unset, both flags false, no
\* selection, selection info (None, None); clearing an idle selection
\* changes nothing.
C7_ClearYieldsInitialState ==
    /\ last.cleared =>
          /\ sel = SelectionState
          /\ ~has_selection(sel)
          /\ get_selection_info(sel) = <<None, None>>
    /\ clear(SelectionState) = SelectionState
    /\ clearSelection_of(SelectionState) = SelectionState

\* C8: every stored annotation has start_time <= end_time, after any
\* sequence of gesture commits, edits and removals.
C8_StartNotAfterEnd == \A a \in Stored : a.start_time <= a.end_time

\* an annotation committed from a right-to-left drag is in the store
C8_Witness ==
    /\ last.op = "release" /\ last.outcome = "committed" /\ last.commit = "inserted"
    /\ last.x0[1] > last.x1
    /\ last.annotation \in Stored

\* C9: every stored annotation has duration = end_time - start_time, also
\* after an edit changed its start or end.
C9_DurationIsDifference == \A a \in Stored : a.duration = a.end_time - a.start_time

\* C10: no annotation with an empty or whitespace-only label is ever put
\* into or left in the store; a step that ends a label prompt or an edit
\* dialog with an empty label changes no stored annotation.
C10_NoEmptyLabel ==
    [][/\ \A a \in Stored' : Strip(a.text) # <<>>
       /\ (\/ last'.op = "edit" /\ last'.verdict = "empty_label"
           \/ last'.op = "release" /\ last'.outcome = "committed" /\ last'.commit = "cancelled")
          => annotations' = annotations]_vars

\* an edit dialog closed with a blank label on an annotation of the store
C10_Witness ==
    /\ last.op = "edit" /\ last.verdict = "empty_label"
    /\ \E a \in Stored : a.id = last.id

\* C11: an edit that is rejected (empty label, start after end) or
\* cancelled leaves the store exactly as it was: the edited annotation's
\* label, times and other fields, every other annotation and every key.
C11_RejectedEditChangesNothing ==
    [][(last'.op = "edit" /\ last'.verdict # "accepted") => annotations' = annotations]_vars

\* an edit dialog refused for start > end on an annotation of the store
C11_Witness ==
    /\ last.op = "edit" /\ last.verdict = "bad_range"
    /\ \E a \in Stored : a.id = last.id

\* C12: every stored annotation that carries a colour has the colour the
\* fixed table gives for its current label, or the default colour for a
\* label outside the table, after creation and after an edit of the label.
C12_ColorMatchesLabel ==
    \A a \in Stored : a.color # NoColor => a.color = annotation_colors(a.text)

\* the last step was a successful load of a recording
Loaded == last.op = "load" /\ last.loaded

\* C13: after a navigation action on a loaded recording the window start
\* lies in [0, max(0, total_duration - time_scale)].
C13_WindowStartInBounds ==
    last.op = "nav" =>
        /\ 0 <= current_window_start
        /\ current_window_start <= Max(0, total_duration(eeg_data) - time_scale)

\* C14: on the 30 s recording with a 10 s window, "next" leads from 0 to
\* 10 s, from 10 s to 20 s, and at 20 s leaves the window where it is; the
\* window info then reads window 3 of 3.
C14_NextWalksAndStops ==
    [][(/\ last'.op = "nav" /\ last'.action = "next"
        /\ total_duration(eeg_data) = 300000 /\ time_scale = 100000) =>
           /\ current_window_start = 0 => current_window_start' = 100000
           /\ current_window_start = 100000 => current_window_start' = 200000
           /\ current_window_start = 200000 =>
                 /\ current_window_start' = 200000
                 /\ window_info(current_window_start', time_scale', total_duration(eeg_data'))
                       = <<3, 3>>
           /\ current_window_start' = 200000 =>
                 window_info(current_window_start', time_scale', total_duration(eeg_data'))
                    = <<3, 3>>]_vars

\* "next" has brought the 10 s window of the 30 s recording to 20 s
C14_Witness ==
    /\ last.op = "nav" /\ last.action = "next"
    /\ eeg_data # NoRecording /\ total_duration(eeg_data) = 300000
    /\ time_scale = 100000
    /\ current_window_start = 200000

\* C15: right after a successful load the window start is 0, all channels
\* of the new recording are displayed and both filter cutoffs are unset.
C15_LoadResetsView ==
    Loaded =>
        /\ current_window_start = 0
        /\ selected_channels = all_channels(eeg_data)
        /\ lowpass_filter = None
        /\ highpass_filter = None

\* C16: right after a successful load the annotation store is empty and
\* bound to the new recording's file.
C16_LoadEmptiesStore ==
    Loaded => annotations = <<>> /\ edf_file = eeg_data

C18_RemoveExactlyThat ==
    [][last'.op = "delete" =>
          /\ Ids(Values(annotations')) = Ids(Values(annotations)) \ last'.deleted
          /\ \A i \in DOMAIN annotations :
                LET rest == SelectSeq(annotations[i].list, LAMBDA a : a.id \notin last'.deleted)
                IN  IF rest = <<>>
                    THEN ~DictHas(annotations', annotations[i].key)
                    ELSE \E j \in DOMAIN annotations' :
                            /\ annotations'[j].key = annotations[i].key
                            /\ annotations'[j].list = rest
          /\ \A j \in DOMAIN annotations' :
                /\ annotations'[j].list # <<>>
                /\ DictHas(annotations, annotations'[j].key)]_vars

\* one of two annotations with the same label and times has been removed
\* and the other is still in the store
C18_Witness ==
    /\ last.op = "delete"
    /\ \E a \in Stored : \E i \in DOMAIN last.removed :
          /\ a.id # last.removed[i].id
          /\ a.text = last.removed[i].text
          /\ a.start_time = last.removed[i].start_time
          /\ a.end_time = last.removed[i].end_time

\* annotations that are not in the store: copies of stored ones under an
\* identity the store does not hold
Absent ==
    {[a EXCEPT !.id = k] : a \in Stored, k \in (0..MaxInserts) \ {b.id : b \in Stored}}

DrawnOver(patches, displayed, c) ==
    {p.id : p \in {q \in patches : \/ q.kind = "axvspan"
                                   \/ q.kind = "axhspan" /\ displayed[q.row + 1] = c}}

\* C20: the annotations shown for a channel c of the plot over the window
\* [ws, we) are exactly the stored annotations that overlap the window
\* (start < we and end > ws) and are global (no channels) or scoped to c.
C20_ChannelQuery ==
    last.op = "plot" =>
        \A i \in DOMAIN last.displayed :
            DrawnOver(last.patches, last.displayed, last.displayed[i])
                = {a.id : a \in {b \in Stored :
                        /\ b.start_time < last.window_start + last.window_size
                        /\ b.end_time > last.window_start
                        /\ (b.channels = {} \/ last.displayed[i] \in b.channels)}}

\* a global annotation and one scoped to C3 over the same interval are
\* stored; the plot of a window they overlap shows both on C3 and only the
\* global one on O1
C20_Witness ==
    /\ last.op = "plot"
    /\ last.displayed = <<"C3", "O1">>
    /\ \E g, a \in Stored :
          /\ g.channels = {} /\ a.channels = {"C3"}
          /\ g.start_time = a.start_time /\ g.end_time = a.end_time
          /\ DrawnOver(last.patches, last.displayed, "C3") = {g.id, a.id}
          /\ DrawnOver(last.patches, last.displayed, "O1") = {g.id}


\* C21: every row of the annotation table stores an index that designates,
\* in the current list of all annotations, the annotation the row shows,
\* also when the filter hides rows; a delete, edit or jump resolves exactly
\* the annotations shown by the selected rows.
C21_RowsDesignateTheirAnnotation ==
    frontend = "qt" =>
        /\ \A r \in DOMAIN table :
              /\ table[r].index \in DOMAIN get_all_annotations(annotations)
              /\ get_all_annotations(annotations)[table[r].index].id = table[r].id
        /\ last.op = "delete" => last.deleted = last.shown
        /\ last.op \in {"edit", "jump"} => last.shown = {last.id}

\* with the filter hiding the first annotation, the only row was deleted:
\* the second annotation of the list is gone and the hidden one is kept
C21_Witness ==
    /\ last.op = "delete"
    /\ search_text # <<>>
    /\ table = <<>>
    /\ \E a \in Stored : a.id < last.removed[1].id /\ a.text # last.removed[1].text


\* the channels an annotation is scoped to; a dict of the tk front end has
\* no such key and is drawn over the full height
Channels(a) == IF "channels" \in DOMAIN a THEN a.channels ELSE {}

\* the label of an annotation, None for a dict read from a file whose entry
\* had no text
Label(a) == IF "text" \in DOMAIN a THEN Some(a.text) ELSE None

\* two stores hold, key by key and entry by entry, the same label, start
\* time, end time and channels
SameEntries(d, e) ==
    /\ Len(d) = Len(e)
    /\ \A i \in DOMAIN d :
          /\ d[i].key = e[i].key
          /\ Len(d[i].list) = Len(e[i].list)
          /\ \A j \in DOMAIN d[i].list :
                /\ Label(d[i].list[j]) = Label(e[i].list[j])
                /\ d[i].list[j].start_time = e[i].list[j].start_time
                /\ d[i].list[j].end_time = e[i].list[j].end_time
                /\ Channels(d[i].list[j]) = Channels(e[i].list[j])

\* C22: a store written to a document and read back from it right away
\* holds, for every key and every entry, the label, start time, end time
\* and channels it was written with.
C22_RoundTrip ==
    [][(/\ last.op = "save"
        /\ last'.op = "load_annotations"
        /\ last'.path = "out.json"
        /\ last'.loaded) => SameEntries(annotations, annotations')]_vars


C24_WindowSizeAtExport ==
    last.op = "save" =>
        /\ document # NoDocument
        /\ document[1].windowSize = time_scale

\* C25: a load of annotations that fails or is cancelled leaves the store,
\* the window and the selection as they were; a load that succeeds leaves
\* no annotation of the previous store.
C25_FailedAnnotationLoadChangesNothing ==
    [][last'.op = "load_annotations" =>
          IF last'.loaded
          THEN Ids(Values(annotations')) \cap Ids(Values(annotations)) = {}
          ELSE /\ annotations' = annotations
               /\ view' = view
               /\ sel' = sel]_vars


\* the displayed channels of the loaded recording
Displayed == displayed_channel_names(eeg_data, selected_channels)

\* C26: with the displayed channels and the spacing of the current plot,
\* the rank computed from the baseline of a rank is that rank, rank 0 has
\* the highest baseline, a click picks the channel of the rank computed
\* from its y, and a click whose rank falls outside the displayed ranks
\* picks no channel and leaves the channel selection as it was.
C26_RankAndBaselineAreInverse ==
    /\ [](frontend = "qt" /\ eeg_data # NoRecording =>
            /\ channel_spacing > 0
            /\ \A r \in 0..(Len(Displayed) - 1) :
                  /\ channel_rank_from_y(baseline(r, Len(Displayed), channel_spacing),
                                         Len(Displayed), channel_spacing) = r
                  /\ r > 0 => baseline(0, Len(Displayed), channel_spacing)
                                > baseline(r, Len(Displayed), channel_spacing)
            /\ last.op = "channel_click" =>
                  /\ last.rank = channel_rank_from_y(last.y, Len(Displayed), channel_spacing)
                  /\ last.name = IF last.rank \in 0..(Len(Displayed) - 1)
                                 THEN Some(Displayed[last.rank + 1]) ELSE None)
    /\ [][last'.op = "channel_click" =>
            selected_annotation_channels' =
                IF last'.name = None THEN selected_annotation_channels
                ELSE IF last'.name[1] \in selected_annotation_channels
                THEN selected_annotation_channels \ {last'.name[1]}
                ELSE selected_annotation_channels \cup {last'.name[1]}]_vars

\* a click half a spacing above the top baseline of two rows, and beyond:
\* the tie rounds to the even row count and no channel is picked
C26_Witness ==
    /\ frontend = "qt"
    /\ last.op = "channel_click"
    /\ Len(Displayed) = 2
    /\ 2 * last.y = 3 * channel_spacing
    /\ last.name = None
    /\ selected_annotation_channels # {}


\* the window on display holds samples of a channel that is not flat
SignalInWindow ==
    /\ eeg_data # NoRecording
    /\ shape1(canvas.window) > 0
    /\ \E i \in DOMAIN canvas.window.rows :
          channel_std(eeg_data, canvas.window.rows[i]) > 0

\* C27: the channel spacing of every plot is strictly positive, and for a
\* window that holds a signal, raising the amplitude scale from 1.0 to 2.0
\* with everything else as it was lowers the spacing.
C27_SpacingShrinksWithAmplitude ==
    /\ [](eeg_data # NoRecording => canvas.spacing > 0)
    /\ [][(/\ SignalInWindow
           /\ amplitude_scale = 10
           /\ amplitude_scale' = 20) => canvas'.spacing < canvas.spacing]_vars


\* C28: whatever filters were set and whatever was plotted, the stored
\* sample matrix is the one the loader returned, and another plot leaves
\* it so; the filters show in the plotted window only.
C28_FiltersLeaveRecordingAsLoaded ==
    /\ sample_matrix = Raw(eeg_data)
    /\ eeg_data # NoRecording => canvas.stored = sample_matrix

\* the qt front end plots a filtered window that is a view of the stored
\* matrix (no channel picked)
C28_Witness ==
    /\ frontend = "qt"
    /\ eeg_data # NoRecording
    /\ selected_channels = <<>>
    /\ last.op = "filter"
    /\ canvas.window.filters # <<>>

\* a filter setting on display that the filter refuses for the loaded
\* recording
FilterFails ==
    /\ eeg_data # NoRecording
    /\ \/ lowpass_filter # None /\ filter_raises(lowpass_filter[1], sampling_freq(eeg_data))
       \/ highpass_filter # None /\ filter_raises(highpass_filter[1], sampling_freq(eeg_data))

\* C29: when a filter call fails the plot still completes and shows the
\* window as it is without any filter.
C29_FailedFilterShowsUnfiltered ==
    FilterFails =>
        /\ frontend \in FrontEnds
        /\ ~canvas.raised
        /\ canvas.window.filters = <<>>

\* C30: a plot of a window that holds no sample completes without raising.
C30_EmptyWindowRenders ==
    (eeg_data # NoRecording /\ shape1(canvas.window) = 0) =>
        /\ frontend \in FrontEnds
        /\ ~canvas.raised


\* C31: a completed gesture whose label input is not empty inserts exactly
\* one annotation: its start and end are the normalised selection times
\* rounded to whole milliseconds, its label is the result of the prompt, and
\* its channels are the annotation-channel selection of that moment, none
\* for a global annotation.
C31_GestureInsertsOneAnnotation ==
    [][(nextId' = nextId + 1 /\ Inserted') =>
          LET a == last'.annotation
          IN  /\ Stored' \ Stored = {a}
              /\ a.start_time = Round3(Min(last'.start, last'.end))
              /\ a.end_time = Round3(Max(last'.start, last'.end))
              /\ last'.label # <<>>
              /\ a.text = last'.label
              /\ Channels(a) = selected_annotation_channels]_vars

\* a right-to-left drag committed with a label while channel C3 is picked
C31_Witness ==
    /\ last.op = "release" /\ last.outcome = "committed" /\ last.commit = "inserted"
    /\ last.x0[1] > last.x1
    /\ last.annotation.channels = {"C3"}
    /\ last.annotation \in Stored


\* the selection of a drag that has just started at x
Dragging(x) == [start_time |-> Some(x), end_time |-> Some(x),
                is_selecting |-> TRUE, mouse_pressed |-> TRUE]

\* C32: a press starts a drag (start = end = x, is_selecting and
\* mouse_pressed true) only when annotation mode is enabled, the button is
\* the primary one and the pointer is inside the plot; a press that fails
\* one of these conditions leaves the selection as it was.
C32_PressStartsDragOnlyWhenAllowed ==
    [][/\ \A x \in ScopedPress, inaxes \in InAxes, button \in Buttons :
             (handle_mouse_press(x, inaxes, button) \/ onMousePress(x, inaxes, button)) =>
                 IF anno_mode /\ inaxes /\ button = 1
                 THEN sel' = Dragging(x)
                 ELSE sel' = sel
       /\ (last'.op = "press" /\ (last' # last \/ sel' # sel)) =>
             /\ anno_mode
             /\ eeg_data # NoRecording
             /\ \E x \in ScopedPress : sel' = Dragging(x)
       /\ (~anno_mode /\ sel' # sel) => last'.op \in {"load", "clear", "add"}]_vars

\* a drag has just been started by a press in annotation mode
C32_Witness ==
    /\ last.op = "press"
    /\ anno_mode
    /\ pressX # None
    /\ sel = Dragging(pressX[1])


\* C33: a move never changes start_time, is_selecting or mouse_pressed.
\* During a drag, in annotation mode and inside the plot, it sets end = x
\* and nothing else; outside the plot or with annotation mode switched off
\* during the drag it changes nothing.
C33_MoveOnlySetsEnd ==
    [][\A x \in ScopedMove, inaxes \in InAxes :
          (handle_mouse_move(x, inaxes, 1) \/ onMouseMove(x, inaxes)) =>
              /\ sel'.start_time = sel.start_time
              /\ sel'.is_selecting = sel.is_selecting
              /\ sel'.mouse_pressed = sel.mouse_pressed
              /\ IF anno_mode /\ inaxes /\ sel.mouse_pressed /\ sel.is_selecting
                 THEN sel'.end_time = Some(x)
                 ELSE sel' = sel]_vars


\* C34: a release with no press before it, or outside the plot, is ignored:
\* start_time, end_time, is_selecting, mouse_pressed and the store stay as
\* they were.
C34_StrayReleaseIsNoOp ==
    [][\A x \in ScopedRelease, inaxes \in InAxes, dlg \in DialogRuns :
          (/\ handle_mouse_release(x, inaxes, 1, dlg) \/ onMouseRelease(x, inaxes)
           /\ ~sel.mouse_pressed \/ ~inaxes) =>
              /\ sel' = sel
              /\ annotations' = annotations]_vars


\* C35: in every reachable state the start and end time of the selection
\* are both unset or both set, after any interleaving of presses, moves,
\* releases, clears, commits and recording loads.
C35_TimesSetTogether ==
    (sel.start_time = None) <=> (sel.end_time = None)

\* a drag that a move has extended: both times set and different
C35_Witness ==
    /\ last.op = "move"
    /\ sel.start_time # None /\ sel.end_time # None
    /\ sel.start_time # sel.end_time


\* C36: an insert loses nothing: after it the store holds the new
\* annotation and every annotation it held before, one more than before,
\* whatever inserts, removals and document loads came earlier.
C36_InsertKeepsTheStore ==
    [][(nextId' = nextId + 1 /\ Inserted') =>
          /\ last'.annotation \in Stored'
          /\ Stored \subseteq Stored'
          /\ Cardinality(Stored') = Cardinality(Stored) + 1]_vars


\* 0 <= start <= max(0, total_duration - time_scale)
InBounds(start, ts, rec) == 0 <= start /\ start <= Max(0, total_duration(rec) - ts)

\* C37: the bound 0 <= window_start <= max(0, total_duration - time_scale)
\* is preserved by every event that changes the window start or the time
\* scale: an auto-play tick, a jump to an annotation, and a change of the
\* time scale.
C37_BoundPreservedByEveryEvent ==
    [][(/\ eeg_data # NoRecording
        /\ eeg_data' = eeg_data
        /\ InBounds(current_window_start, time_scale, eeg_data)
        /\ last'.op \in {"tick", "jump", "time_scale"}
        /\ <<current_window_start', time_scale'>> # <<current_window_start, time_scale>>)
          => InBounds(current_window_start', time_scale', eeg_data)]_vars

\* the play control shows not playing and the timer is stopped
NotPlaying == ~playback.timer_active /\ ~playback.is_playing /\ ~playback.checked

\* C38: auto-play terminates.  Once the timer runs on a loaded recording and
\* from some point on nothing but its ticks happens, every tick moves the
\* window start on by one second until window_start + time_scale reaches
\* total_duration; the tick that finds the end stops the timer and puts the
\* play control back to not playing, and without the timer no tick moves
\* the window.
C38_AutoPlayTerminates ==
    /\ []<><<~advance_playback>>_vars \/ (playback.timer_active ~> NotPlaying)
    /\ [][/\ advance_playback =>
                IF current_window_start + time_scale >= total_duration(eeg_data)
                THEN NotPlaying'
                ELSE /\ current_window_start' = current_window_start + 10000
                     /\ playback'.timer_active
          /\ (last'.op = "tick" /\ current_window_start' # current_window_start)
                => playback.timer_active]_vars

\* the tick that found the end of the recording has stopped the timer
C38_Witness ==
    /\ last.op = "tick" /\ last.stopped
    /\ eeg_data # NoRecording
    /\ current_window_start + time_scale >= total_duration(eeg_data)
    /\ NotPlaying


\* the channel names of a recording, as a set
ChannelNames(rec) == {channel_names(rec)[i] : i \in DOMAIN channel_names(rec)}

\* C39: the channels recorded on an annotation that a gesture inserts are
\* channel names of the recording that is loaded at the time of the insert;
\* a selection made on an earlier recording does not carry over.
C39_ChannelsBelongToTheRecording ==
    Inserted => Channels(last.annotation) \subseteq ChannelNames(eeg_data)

====
